---- MODULE Spec2Model ----
(***************************************************************************)
(* A model of the supplier views of the admin frontend                     *)
(* (app/main/views/suppliers.py).                                          *)
(*                                                                         *)
(* Every request is handled by one worker; a handler is a sequence of      *)
(* synchronous remote calls (data API, object storage).  One step of the   *)
(* model is one remote call together with the local control flow that      *)
(* follows it up to the next remote call.  A remote call either returns or *)
(* raises; an exception that the handler does not catch ends the request.  *)
(* Two workers serve requests for the same supplier and framework, so      *)
(* their remote calls interleave.                                          *)
(*                                                                         *)
(* calls[w] is the list of remote calls the current (or last) request of   *)
(* worker w has issued, resp[w] the response it produced.                  *)
(***************************************************************************)
EXTENDS Integers, Sequences, FiniteSets, TLC

VARIABLES
    agreement,    \* the supplier-framework record held by the data API
    bucket,       \* the set of keys present in the agreements bucket
    clock,        \* the wall clock the upload path is stamped with
    framework,    \* the framework record held by the data API
    declaration,  \* the supplier's declaration held by the data API
    services,     \* service id -> status, the supplier's services
    session,      \* worker -> the role of the user whose requests it serves
    supplier,     \* the supplier record held by the data API
    drafts,       \* the supplier's draft services, in the data API's order
    content,      \* the frameworks that have an 'edit_service_as_admin' manifest
    pc,           \* worker -> position in its handler
    req,          \* worker -> the request it is serving
    loc,          \* worker -> the handler's local variables
    calls,        \* worker -> remote calls issued by the request
    resp,         \* worker -> the response of the request
    served        \* the number of requests accepted so far

vars == <<agreement, bucket, clock, framework, declaration, services,
          session, supplier, drafts, content,
          pc, req, loc, calls, resp, served>>

Workers == {"w1", "w2"}

\* The clock runs from 0 to MaxClock; a key stored before the run is <<0>>.
MaxClock == 1

\* The number of requests accepted in one run.
MaxRequests == 2

\* The number of services the supplier has on the framework.
NumServices == 2

----------------------------------------------------------------------------
\* Messages and names of the module

COUNTERSIGNED_AGREEMENT_NOT_PDF_MESSAGE == "Countersigned agreement file is not a PDF"
UPLOAD_COUNTERSIGNED_AGREEMENT_MESSAGE == "Countersigned agreement file was uploaded"
AGREEMENT_APPROVAL_CANCELLED_MESSAGE == "The agreement for {organisation_name} had its approval cancelled."
AGREEMENT_APPROVED_MESSAGE == "The agreement for {organisation_name} was approved."
SUPPLIER_SERVICES_REMOVED_MESSAGE == "You suspended all {framework_name} services"
SUPPLIER_SERVICES_UNSUSPENDED_MESSAGE == "You unsuspended all {framework_name} services"
SUPPLIER_SERVICES_DELAYED_INDEX_MESSAGE == "Search results may take a few minutes to be updated."

\* Python's None for a document path; a stored path is <<timestamp>>.
None == <<>>

\* Python's None (JSON null) for a field whose values are strings
Null == "null"

\* the session of a worker whose requests pass the role guard unseen
NoSession == "any"

\* the supplier record where the supplier's details play no part
NoSupplier ==
    [registeredName |-> "n0", companiesHouseNumber |-> Null,
     otherCompanyRegistrationNumber |-> Null, registrationCountry |-> "c0",
     address |-> "c0", users |-> {}]

----------------------------------------------------------------------------
\* Responses

NoResp == [code |-> 0, flash |-> <<>>, location |-> ""]

\* abort(code)
Abort(code) == [code |-> code, flash |-> <<>>, location |-> ""]

\* redirect(url_for(endpoint)) after the flashes of the request
Redirect(endpoint, flashes) == [code |-> 302, flash |-> flashes, location |-> endpoint]

\* an exception no handler catches: the generic error page
Raised == [code |-> 500, flash |-> <<>>, location |-> ""]

\* the status of a data API response: found, not found, any other error; a
\* request may name a supplier or a framework of which the API has no record
Outcomes == {"200", "404", "500"}

\* one remote call in the log of a request
Call(op, arg, ok) == [op |-> op, arg |-> arg, ok |-> ok]

Ops(w) == {calls[w][i].op : i \in DOMAIN calls[w]}

Issued(w, op) == op \in Ops(w)

\* index of the first call of op in the request's log, 0 if none
FirstCall(w, op) ==
    IF Issued(w, op)
    THEN CHOOSE i \in DOMAIN calls[w] :
             /\ calls[w][i].op = op
             /\ \A j \in 1..(i - 1) : calls[w][j].op # op
    ELSE 0

Idle(w) == pc[w] = "idle"

\* worker w accepts a new request: a request goes to the first idle worker
Accept(w) ==
    /\ pc[w] = "idle"
    /\ w = "w2" => pc["w1"] # "idle"
    /\ served < MaxRequests
    /\ served' = served + 1

\* the request of w is over with a response
Done(w) == pc[w] = "idle" /\ resp[w].code # 0

Finish(w, r) ==
    /\ pc' = [pc EXCEPT ![w] = "idle"]
    /\ resp' = [resp EXCEPT ![w] = r]

Goto(w, p) ==
    /\ pc' = [pc EXCEPT ![w] = p]
    /\ resp' = [resp EXCEPT ![w] = NoResp]

\* a step that ends the request or goes on: nxt = [pc, resp]
Continue(w, nxt) ==
    /\ pc' = [pc EXCEPT ![w] = nxt.pc]
    /\ resp' = [resp EXCEPT ![w] = nxt.resp]

Next_(p) == [pc |-> p, resp |-> NoResp]

End_(r) == [pc |-> "idle", resp |-> r]

Log(w, c) == calls' = [calls EXCEPT ![w] = Append(@, c)]

FirstLog(w, c) == calls' = [calls EXCEPT ![w] = <<c>>]

----------------------------------------------------------------------------
\* The data API's agreement record and the agreements bucket

AgreementStatuses == {"none", "draft", "signed", "on-hold", "approved", "countersigned"}

\* agreementReturned: the supplier has returned a signed agreement
AgreementReturned(a) == a.status \notin {"none", "draft"}

\* get_supplier_framework_info behind a try/except that lets a 404 pass
agreement_lookup_raises_unless_404(status) == status \notin {"200", "404"}

\* get_supplier_framework_info is called outside any try/except in the
\* agreement handlers: an APIError of any status leaves the handler
agreement_lookup_raises(status) == status # "200"

NoAgreementLocals == [supplier_framework |-> [status |-> "none", onFramework |-> FALSE,
                                              countersignedPath |-> None],
                      document |-> None, path |-> None]

\* generate_timestamped_document_upload_path: the path is stamped with the clock
generate_timestamped_document_upload_path(now) == <<now>>

----------------------------------------------------------------------------
\* upload_countersigned_agreement_file (POST)

\* upload_after_name with the test of the status lost: always approve first
upload_after_name_always_approving(supplier_framework) == Next_("u_approve")

\* after the supplier name is known: approve first unless already approved
upload_after_name(supplier_framework) ==
    IF supplier_framework.status \notin {"approved", "countersigned"}
    THEN Next_("u_approve")
    ELSE Next_("u_genpath")

\* file_is_pdf(the_file): the content sniff of the uploaded file
file_is_pdf(the_file) == the_file = "pdf"

\* upload_after_lookup with the 'not in errors' test lost: a non-PDF goes on
upload_after_lookup_ignoring_errors(supplier_framework, the_file, named) ==
    IF ~supplier_framework.onFramework \/ supplier_framework.status \in {"none", "draft"}
    THEN End_(Abort(404))
    ELSE IF the_file = "none"
    THEN End_(Redirect("list_countersigned_agreement_file", <<>>))
    ELSE IF ~named
    THEN Next_("u_get_supplier")
    ELSE upload_after_name(supplier_framework)

\* upload_after_lookup with the guard testing onFramework alone
upload_after_lookup_on_framework_only(supplier_framework, the_file, named) ==
    IF ~supplier_framework.onFramework
    THEN End_(Abort(404))
    ELSE IF the_file = "none"
    THEN End_(Redirect("list_countersigned_agreement_file", <<>>))
    ELSE IF ~file_is_pdf(the_file)
    THEN End_(Redirect("list_countersigned_agreement_file",
                       <<COUNTERSIGNED_AGREEMENT_NOT_PDF_MESSAGE>>))
    ELSE IF ~named
    THEN Next_("u_get_supplier")
    ELSE upload_after_name(supplier_framework)

\* upload_after_lookup with the 404 guard lost
upload_after_lookup_unguarded(supplier_framework, the_file, named) ==
    IF the_file = "none"
    THEN End_(Redirect("list_countersigned_agreement_file", <<>>))
    ELSE IF ~file_is_pdf(the_file)
    THEN End_(Redirect("list_countersigned_agreement_file",
                       <<COUNTERSIGNED_AGREEMENT_NOT_PDF_MESSAGE>>))
    ELSE IF ~named
    THEN Next_("u_get_supplier")
    ELSE upload_after_name(supplier_framework)

\* the handler's control flow from the lookup to its next remote call
upload_after_lookup(supplier_framework, the_file, named) ==
    IF ~supplier_framework.onFramework \/ supplier_framework.status \in {"none", "draft"}
    THEN End_(Abort(404))
    ELSE IF the_file = "none"
    THEN End_(Redirect("list_countersigned_agreement_file", <<>>))
    ELSE IF ~file_is_pdf(the_file)
    THEN End_(Redirect("list_countersigned_agreement_file",
                       <<COUNTERSIGNED_AGREEMENT_NOT_PDF_MESSAGE>>))
    ELSE IF ~named
    THEN Next_("u_get_supplier")
    ELSE upload_after_name(supplier_framework)

UploadLookup(w) ==
    /\ Accept(w)
    /\ \E the_file \in {"none", "pdf", "notpdf"}, named \in BOOLEAN, status \in Outcomes :
        /\ req' = [req EXCEPT ![w] = [handler |-> "upload_countersigned_agreement_file",
                                      method |-> "POST", arg |-> the_file]]
        /\ FirstLog(w, Call("get_supplier_framework_info", status, status = "200"))
        /\ IF ~agreement_lookup_raises(status)
           THEN /\ Continue(w, upload_after_lookup(agreement, the_file, named))
                /\ loc' = [loc EXCEPT ![w] =
                              [NoAgreementLocals EXCEPT !.supplier_framework = agreement]]
           ELSE /\ Finish(w, Raised)
                /\ loc' = [loc EXCEPT ![w] = NoAgreementLocals]
    /\ UNCHANGED <<agreement, bucket, clock, framework, session, supplier, drafts, content, declaration, services>>

UploadGetSupplier(w) ==
    /\ pc[w] = "u_get_supplier"
    /\ \E ok \in BOOLEAN :
        /\ Log(w, Call("get_supplier", "", ok))
        /\ IF ok
           THEN Continue(w, upload_after_name(loc[w].supplier_framework))
           ELSE Finish(w, Raised)
    /\ UNCHANGED <<agreement, bucket, clock, framework, session, supplier, drafts, content, declaration, services, req, loc, served>>

\* data_api_client.approve_agreement_for_countersignature: the API approves
\* only an agreement the supplier has returned
UploadApprove(w) ==
    /\ pc[w] = "u_approve"
    /\ \E ok \in BOOLEAN :
        /\ ok => AgreementReturned(agreement)
        /\ Log(w, Call("approve_agreement_for_countersignature", agreement.status, ok))
        /\ IF ok
           THEN /\ agreement' = [agreement EXCEPT !.status = "approved"]
                /\ Goto(w, "u_genpath")
           ELSE /\ UNCHANGED agreement
                /\ Finish(w, Raised)
    /\ UNCHANGED <<bucket, clock, framework, session, supplier, drafts, content, declaration, services, req, loc, served>>

UploadGenPath(w) ==
    /\ pc[w] = "u_genpath"
    /\ loc' = [loc EXCEPT ![w].path = generate_timestamped_document_upload_path(clock)]
    /\ Goto(w, "u_save")
    /\ UNCHANGED <<agreement, bucket, clock, framework, session, supplier, drafts, content, declaration, services, req, calls, served>>

\* upload_after_save with the exception of a failed save swallowed
upload_after_save_swallowing(ok) == Next_("u_update")

\* after agreements_bucket.save: the path is recorded next; a save that
\* raises is not caught and ends the request
upload_after_save(ok) ==
    IF ok
    THEN Next_("u_update")
    ELSE End_(Raised)

\* agreements_bucket.save(path, the_file, ...)
UploadSave(w) ==
    /\ pc[w] = "u_save"
    /\ \E ok \in BOOLEAN :
        /\ Log(w, Call("save", loc[w].path, ok))
        /\ bucket' = IF ok THEN bucket \cup {loc[w].path} ELSE bucket
        /\ Continue(w, upload_after_save(ok))
    /\ UNCHANGED <<agreement, clock, framework, session, supplier, drafts, content, declaration, services, req, loc, served>>

\* data_api_client.update_framework_agreement(agreement_id, {"countersignedAgreementPath": path})
UploadUpdate(w) ==
    /\ pc[w] = "u_update"
    /\ \E ok \in BOOLEAN :
        /\ Log(w, Call("update_framework_agreement", loc[w].path, ok))
        /\ IF ok
           THEN /\ agreement' = [agreement EXCEPT !.countersignedPath = loc[w].path]
                /\ Goto(w, "u_audit")
           ELSE /\ UNCHANGED agreement
                /\ Finish(w, Raised)
    /\ UNCHANGED <<bucket, clock, framework, session, supplier, drafts, content, declaration, services, req, loc, served>>

\* data_api_client.create_audit_event(AuditTypes.upload_countersigned_agreement, ...)
UploadAudit(w) ==
    /\ pc[w] = "u_audit"
    /\ \E ok \in BOOLEAN :
        /\ Log(w, Call("upload_countersigned_agreement", loc[w].path, ok))
        /\ IF ok
           THEN Finish(w, Redirect("list_countersigned_agreement_file",
                                   <<UPLOAD_COUNTERSIGNED_AGREEMENT_MESSAGE>>))
           ELSE Finish(w, Raised)
    /\ UNCHANGED <<agreement, bucket, clock, framework, session, supplier, drafts, content, declaration, services, req, loc, served>>

----------------------------------------------------------------------------
\* remove_countersigned_agreement_file (GET, POST)

\* remove_sequence with the object deleted before the reference is cleared
remove_sequence_delete_first == <<"r_delete", "r_update", "r_audit">>

\* the POST branch: the remote calls in the order the handler makes them
remove_sequence == <<"r_update", "r_delete", "r_audit">>

\* the step after step i of the POST branch (0: the lookup)
remove_next(i) ==
    IF i < Len(remove_sequence)
    THEN Next_(remove_sequence[i + 1])
    ELSE End_(Redirect("list_countersigned_agreement_file", <<>>))

remove_after_lookup(method) ==
    IF method = "GET"
    THEN End_(Redirect("list_countersigned_agreement_file?remove_countersigned_agreement=true",
                       <<>>))
    ELSE remove_next(0)

RemoveStepIndex(p) == CHOOSE i \in DOMAIN remove_sequence : remove_sequence[i] = p

RemoveLookup(w) ==
    /\ Accept(w)
    /\ \E method \in {"GET", "POST"}, status \in Outcomes :
        /\ req' = [req EXCEPT ![w] = [handler |-> "remove_countersigned_agreement_file",
                                      method |-> method, arg |-> "none"]]
        /\ FirstLog(w, Call("get_supplier_framework_info", status, status = "200"))
        /\ IF ~agreement_lookup_raises(status)
           THEN /\ Continue(w, remove_after_lookup(method))
                /\ loc' = [loc EXCEPT ![w] =
                              [NoAgreementLocals EXCEPT
                                   !.supplier_framework = agreement,
                                   !.document = agreement.countersignedPath]]
           ELSE /\ Finish(w, Raised)
                /\ loc' = [loc EXCEPT ![w] = NoAgreementLocals]
    /\ UNCHANGED <<agreement, bucket, clock, framework, session, supplier, drafts, content, declaration, services>>

\* data_api_client.update_framework_agreement(agreementId, {"countersignedAgreementPath": None});
\* there is an agreement to update only if the record read has one
RemoveUpdate(w) ==
    /\ pc[w] = "r_update"
    /\ \E ok \in BOOLEAN :
        /\ ok => loc[w].supplier_framework.status # "none"
        /\ Log(w, Call("update_framework_agreement", None, ok))
        /\ IF ok
           THEN /\ agreement' = [agreement EXCEPT !.countersignedPath = None]
                /\ Continue(w, remove_next(RemoveStepIndex("r_update")))
           ELSE /\ UNCHANGED agreement
                /\ Finish(w, Raised)
    /\ UNCHANGED <<bucket, clock, framework, session, supplier, drafts, content, declaration, services, req, loc, served>>

\* agreements_bucket.delete_key(document)
RemoveDelete(w) ==
    /\ pc[w] = "r_delete"
    /\ \E ok \in BOOLEAN :
        /\ Log(w, Call("delete_key", loc[w].document, ok))
        /\ IF ok
           THEN /\ bucket' = bucket \ {loc[w].document}
                /\ Continue(w, remove_next(RemoveStepIndex("r_delete")))
           ELSE /\ UNCHANGED bucket
                /\ Finish(w, Raised)
    /\ UNCHANGED <<agreement, clock, framework, session, supplier, drafts, content, declaration, services, req, loc, served>>

\* data_api_client.create_audit_event(AuditTypes.delete_countersigned_agreement, ...)
RemoveAudit(w) ==
    /\ pc[w] = "r_audit"
    /\ \E ok \in BOOLEAN :
        /\ Log(w, Call("delete_countersigned_agreement", loc[w].document, ok))
        /\ IF ok
           THEN Continue(w, remove_next(RemoveStepIndex("r_audit")))
           ELSE Finish(w, Raised)
    /\ UNCHANGED <<agreement, bucket, clock, framework, session, supplier, drafts, content, declaration, services, req, loc, served>>

\* approve_after_call with the page of unapprove_agreement_for_countersignature
approve_after_call_to_view(ok) ==
    IF ok
    THEN Redirect("view_signed_agreement", <<AGREEMENT_APPROVAL_CANCELLED_MESSAGE>>)
    ELSE Raised

\* approve_agreement_for_countersignature after the API call
approve_after_call(ok) ==
    IF ok
    THEN Redirect("next_agreement", <<AGREEMENT_APPROVED_MESSAGE>>)
    ELSE Raised

----------------------------------------------------------------------------
\* approve_agreement_for_countersignature (POST): the agreement id of the URL
\* is passed to the API with no check of the agreement

ApproveAgreement(w) ==
    /\ Accept(w)
    /\ \E ok \in BOOLEAN :
        /\ ok => AgreementReturned(agreement)
        /\ req' = [req EXCEPT ![w] = [handler |-> "approve_agreement_for_countersignature",
                                      method |-> "POST", arg |-> "none"]]
        /\ FirstLog(w, Call("approve_agreement_for_countersignature", agreement.status, ok))
        /\ loc' = [loc EXCEPT ![w] = NoAgreementLocals]
        /\ agreement' = IF ok THEN [agreement EXCEPT !.status = "approved"] ELSE agreement
        /\ Finish(w, approve_after_call(ok))
    /\ UNCHANGED <<bucket, clock, framework, session, supplier, drafts, content, declaration, services>>

\* time passes
Tick ==
    /\ clock < MaxClock
    /\ clock' = clock + 1
    /\ UNCHANGED <<agreement, bucket, framework, session, supplier, drafts, content, declaration, services,
                   pc, req, loc, calls, resp, served>>

----------------------------------------------------------------------------
\* The agreement workflow: upload, remove and approve requests interleaved

NoReq == [handler |-> "none", method |-> "none", arg |-> "none"]

InitAgreement ==
    /\ agreement \in {a \in [status : AgreementStatuses, onFramework : BOOLEAN,
                             countersignedPath : {None, <<0>>}] :
                         a.countersignedPath # None => a.status = "countersigned"}
    /\ bucket = {agreement.countersignedPath} \ {None}
    /\ clock = 0
    /\ framework = [status |-> "live"]
    /\ declaration = [found |-> FALSE, answers |-> <<>>]
    /\ services = <<>>
    /\ session = [w \in Workers |-> NoSession]
    /\ supplier = NoSupplier
    /\ drafts = <<>>
    /\ content = {}
    /\ pc = [w \in Workers |-> "idle"]
    /\ req = [w \in Workers |-> NoReq]
    /\ loc = [w \in Workers |-> NoAgreementLocals]
    /\ calls = [w \in Workers |-> <<>>]
    /\ resp = [w \in Workers |-> NoResp]
    /\ served = 0

NextAgreement ==
    \/ \E w \in Workers : UploadLookup(w)
    \/ \E w \in Workers : UploadGetSupplier(w)
    \/ \E w \in Workers : UploadApprove(w)
    \/ \E w \in Workers : UploadGenPath(w)
    \/ \E w \in Workers : UploadSave(w)
    \/ \E w \in Workers : UploadUpdate(w)
    \/ \E w \in Workers : UploadAudit(w)
    \/ \E w \in Workers : RemoveLookup(w)
    \/ \E w \in Workers : RemoveUpdate(w)
    \/ \E w \in Workers : RemoveDelete(w)
    \/ \E w \in Workers : RemoveAudit(w)
    \/ \E w \in Workers : ApproveAgreement(w)
    \/ Tick

SpecAgreement == InitAgreement /\ [][NextAgreement]_vars

----------------------------------------------------------------------------
\* The declaration section editor: edit_supplier_declaration_section (GET)
\* and update_supplier_declaration_section (POST)

FrameworkStatuses == {"coming", "open", "pending", "standstill", "live", "expired"}

\* the 'declaration' manifest: section id -> question ids
Sections == [s1 |-> {"q1"}, s2 |-> {"q2"}]

SectionIds == DOMAIN Sections

Questions == UNION {Sections[s] : s \in SectionIds}

Answers == {"a", "b"}

\* the mappings from some of the question ids of qs to answers
Mappings(qs) == UNION {[sub -> Answers] : sub \in SUBSET qs}

\* dict.update that keeps nothing of d: the posted section alone
Updated_posted_only(d, u) == u

\* dict.update: d overridden by u
Updated(d, u) ==
    [q \in DOMAIN d \cup DOMAIN u |-> IF q \in DOMAIN u THEN u[q] ELSE d[q]]

\* section.has_changes_to_save(declaration, posted_data): a posted answer
\* differs from the stored one, or a field of the section was never stored
has_changes_to_save(section_id, stored, posted_data) ==
    \/ \E q \in DOMAIN posted_data : q \notin DOMAIN stored \/ stored[q] # posted_data[q]
    \/ \E q \in Sections[section_id] : q \notin DOMAIN stored

\* declaration_editable with the statuses of view_supplier_declaration
declaration_editable_with_expired(status) ==
    status \in {"pending", "standstill", "live", "expired"}

\* framework['status'] in ['pending', 'standstill', 'live']
declaration_editable(status) == status \in {"pending", "standstill", "live"}

NoDeclarationLocals == [declaration |-> <<>>, posted_data |-> <<>>]

declaration_after_framework(status) ==
    IF ~declaration_editable(status)
    THEN End_(Abort(403))
    ELSE Next_("d_get_declaration")

\* edit: render the section, 404 if the manifest has no such section
edit_after_declaration(section_id) ==
    IF section_id \notin SectionIds
    THEN End_(Abort(404))
    ELSE End_([code |-> 200, flash |-> <<>>, location |-> "suppliers/edit_declaration.html"])

\* update_after_declaration with the has_changes_to_save test lost
update_after_declaration_always_saving(section_id, stored, posted_data) ==
    IF section_id \notin SectionIds
    THEN End_(Abort(404))
    ELSE Next_("d_set")

\* update: save only if the section has changes to save
update_after_declaration(section_id, stored, posted_data) ==
    IF section_id \notin SectionIds
    THEN End_(Abort(404))
    ELSE IF has_changes_to_save(section_id, stored, posted_data)
    THEN Next_("d_set")
    ELSE End_(Redirect("view_supplier_declaration", <<>>))

\* the except clause with the test of the status code lost: every APIError
\* of the declaration lookup is raised again
lookup_raises_any(outcome) == outcome # "ok"

\* except APIError as e: if e.status_code != 404: raise
lookup_raises(outcome) == outcome \notin {"ok", "404"}

\* view_supplier_declaration: framework['status'] in
\* ('pending', 'standstill', 'live', 'expired')
declaration_viewable(status) == status \in {"pending", "standstill", "live", "expired"}

ViewDeclarationHandler(w) == req[w].handler = "view_supplier_declaration"

EditHandler(w) == req[w].handler = "edit_supplier_declaration_section"

UpdateHandler(w) == req[w].handler = "update_supplier_declaration_section"

\* data_api_client.get_supplier(supplier_id): the supplier must exist
DeclGetSupplier(w) ==
    /\ Accept(w)
    /\ \E handler \in {"edit_supplier_declaration_section",
                       "update_supplier_declaration_section"},
          section_id \in SectionIds \cup {"sX"}, ok \in BOOLEAN :
        /\ req' = [req EXCEPT ![w] =
                      [handler |-> handler,
                       method |-> IF handler = "edit_supplier_declaration_section"
                                  THEN "GET" ELSE "POST",
                       arg |-> section_id]]
        /\ FirstLog(w, Call("get_supplier", "", ok))
        /\ IF ok THEN Goto(w, "d_get_framework") ELSE Finish(w, Raised)
    /\ loc' = [loc EXCEPT ![w] = NoDeclarationLocals]
    /\ UNCHANGED <<agreement, bucket, clock, framework, session, supplier, drafts, content, declaration, services>>

\* data_api_client.get_framework(framework_slug), then the status guard
DeclGetFramework(w) ==
    /\ pc[w] = "d_get_framework"
    /\ \E ok \in BOOLEAN :
        /\ Log(w, Call("get_framework", framework.status, ok))
        /\ IF ok
           THEN Continue(w, declaration_after_framework(framework.status))
           ELSE Finish(w, Raised)
    /\ UNCHANGED <<agreement, bucket, clock, framework, session, supplier, drafts, content, declaration, services,
                   req, loc, served>>

\* data_api_client.get_supplier_declaration: a 404 is an empty declaration,
\* any other error is raised; then the section and the posted form
DeclGetDeclaration(w) ==
    /\ pc[w] = "d_get_declaration"
    /\ \E outcome \in {"ok", "404", "error"} :
        /\ outcome = "ok" => declaration.found
        /\ outcome = "404" => ~declaration.found
        /\ Log(w, Call("get_supplier_declaration", outcome, outcome = "ok"))
        /\ IF lookup_raises(outcome)
           THEN /\ Finish(w, Raised)
                /\ UNCHANGED loc
           ELSE LET stored == IF outcome = "ok" THEN declaration.answers ELSE <<>>
                IN  IF EditHandler(w)
                    THEN /\ Continue(w, edit_after_declaration(req[w].arg))
                         /\ loc' = [loc EXCEPT ![w].declaration = stored]
                    ELSE \E posted_data \in
                             Mappings(IF req[w].arg \in SectionIds
                                      THEN Sections[req[w].arg] ELSE {}) :
                         /\ Continue(w, update_after_declaration(req[w].arg, stored,
                                                                 posted_data))
                         /\ loc' = [loc EXCEPT ![w] = [declaration |-> stored,
                                                       posted_data |-> posted_data]]
    /\ UNCHANGED <<agreement, bucket, clock, framework, session, supplier, drafts, content, declaration, services,
                   req, served>>

\* whole_declaration built from the declaration stored at the time of the save
whole_declaration_from_stored(local, stored_now, posted_data) ==
    Updated(stored_now, posted_data)

\* declaration.update(posted_data): the mapping sent is the handler's local
\* copy, read at the lookup, overridden by the posted answers; what the API
\* stores at the time of the save plays no part
whole_declaration(local, stored_now, posted_data) == Updated(local, posted_data)

\* declaration.update(posted_data); data_api_client.set_supplier_declaration(...)
DeclSet(w) ==
    /\ pc[w] = "d_set"
    /\ \E ok \in BOOLEAN :
        LET whole == whole_declaration(loc[w].declaration, declaration.answers,
                                       loc[w].posted_data)
        IN  /\ Log(w, Call("set_supplier_declaration", whole, ok))
            /\ IF ok
               THEN /\ declaration' = [found |-> TRUE, answers |-> whole]
                    /\ Finish(w, Redirect("view_supplier_declaration", <<>>))
               ELSE /\ UNCHANGED declaration
                    /\ Finish(w, Raised)
    /\ UNCHANGED <<agreement, bucket, clock, framework, session, supplier, drafts, content, services, req, loc, served>>

\* view_supplier_declaration (GET): 404 for a deprecated framework slug, else
\* data_api_client.get_supplier(supplier_id)
ViewDeclGetSupplier(w) ==
    /\ Accept(w)
    /\ req' = [req EXCEPT ![w] = [handler |-> "view_supplier_declaration",
                                  method |-> "GET", arg |-> "none"]]
    /\ loc' = [loc EXCEPT ![w] = NoDeclarationLocals]
    /\ \E deprecated \in BOOLEAN, ok \in BOOLEAN :
        IF deprecated
        THEN /\ calls' = [calls EXCEPT ![w] = <<>>]
             /\ Finish(w, Abort(404))
        ELSE /\ FirstLog(w, Call("get_supplier", "", ok))
             /\ IF ok THEN Goto(w, "vd_get_framework") ELSE Finish(w, Raised)
    /\ UNCHANGED <<agreement, bucket, clock, framework, session, supplier, drafts,
                   content, declaration, services>>

\* data_api_client.get_framework(framework_slug), then the status guard
ViewDeclGetFramework(w) ==
    /\ pc[w] = "vd_get_framework"
    /\ \E ok \in BOOLEAN :
        /\ Log(w, Call("get_framework", framework.status, ok))
        /\ IF ok
           THEN IF declaration_viewable(framework.status)
                THEN Goto(w, "vd_lookup")
                ELSE Finish(w, Abort(403))
           ELSE Finish(w, Raised)
    /\ UNCHANGED <<agreement, bucket, clock, framework, session, supplier, drafts,
                   content, declaration, services, req, loc, served>>

\* data_api_client.get_supplier_framework_info: a 404 is an empty record, any
\* other error is raised; then the declaration page
ViewDeclLookup(w) ==
    /\ pc[w] = "vd_lookup"
    /\ \E outcome \in {"ok", "404", "error"} :
        /\ outcome = "404" => ~declaration.found
        /\ Log(w, Call("get_supplier_framework_info", outcome, outcome = "ok"))
        /\ IF lookup_raises(outcome)
           THEN /\ Finish(w, Raised)
                /\ UNCHANGED loc
           ELSE /\ loc' = [loc EXCEPT ![w].declaration =
                              IF outcome = "ok" /\ declaration.found
                              THEN declaration.answers ELSE <<>>]
                /\ Finish(w, [code |-> 200, flash |-> <<>>,
                              location |-> "suppliers/view_declaration.html"])
    /\ UNCHANGED <<agreement, bucket, clock, framework, session, supplier, drafts,
                   content, declaration, services, req, served>>

InitDeclaration ==
    /\ agreement = [status |-> "none", onFramework |-> FALSE, countersignedPath |-> None]
    /\ bucket = {}
    /\ clock = 0
    /\ framework \in [status : FrameworkStatuses]
    /\ declaration \in {[found |-> FALSE, answers |-> <<>>]}
                           \cup [found : {TRUE}, answers : Mappings(Questions)]
    /\ services = <<>>
    /\ session = [w \in Workers |-> NoSession]
    /\ supplier = NoSupplier
    /\ drafts = <<>>
    /\ content = {}
    /\ pc = [w \in Workers |-> "idle"]
    /\ req = [w \in Workers |-> NoReq]
    /\ loc = [w \in Workers |-> NoDeclarationLocals]
    /\ calls = [w \in Workers |-> <<>>]
    /\ resp = [w \in Workers |-> NoResp]
    /\ served = 0

NextDeclaration ==
    \/ \E w \in Workers : DeclGetSupplier(w)
    \/ \E w \in Workers : DeclGetFramework(w)
    \/ \E w \in Workers : DeclGetDeclaration(w)
    \/ \E w \in Workers : DeclSet(w)
    \/ \E w \in Workers : ViewDeclGetSupplier(w)
    \/ \E w \in Workers : ViewDeclGetFramework(w)
    \/ \E w \in Workers : ViewDeclLookup(w)

SpecDeclaration == InitDeclaration /\ [][NextDeclaration]_vars

----------------------------------------------------------------------------
\* toggle_supplier_services (POST): requests are served one at a time

ServiceIds == 1..NumServices

ServiceStatuses == {"published", "disabled", "enabled"}

\* the ids of the services in status old_status, as find_services_iter
\* lists them
Matching(st, old_status) == {id \in DOMAIN st : st[id] = old_status}

Listed(ids) ==
    CHOOSE t \in [1..Cardinality(ids) -> ids] :
        \A i, j \in 1..Cardinality(ids) : i < j => t[i] < t[j]

\* toggle_action with 'enabled' as the old status of an unsuspend
toggle_action_from_enabled(remove_services, publish_services) ==
    [framework_slug |-> IF remove_services # "" THEN remove_services ELSE publish_services,
     old_status |-> IF remove_services # "" THEN "published" ELSE "enabled",
     new_status |-> IF remove_services # "" THEN "disabled" ELSE "published",
     flash_message |-> IF remove_services # "" THEN SUPPLIER_SERVICES_REMOVED_MESSAGE
                       ELSE SUPPLIER_SERVICES_UNSUSPENDED_MESSAGE]

\* request.args 'remove' and 'publish': a framework slug, or "" if absent
toggle_action(remove_services, publish_services) ==
    [framework_slug |-> IF remove_services # "" THEN remove_services ELSE publish_services,
     old_status |-> IF remove_services # "" THEN "published" ELSE "disabled",
     new_status |-> IF remove_services # "" THEN "disabled" ELSE "published",
     flash_message |-> IF remove_services # "" THEN SUPPLIER_SERVICES_REMOVED_MESSAGE
                       ELSE SUPPLIER_SERVICES_UNSUSPENDED_MESSAGE]

NoToggleLocals == [toggle_action |-> toggle_action("", ""), services |-> <<>>,
                   k |-> 0, before |-> <<>>]

\* toggle_after_framework with the statuses find_supplier_services lists
toggle_after_framework_or_expired(status) ==
    IF status \notin {"live", "expired"}
    THEN End_(Abort(400))
    ELSE Next_("t_find")

\* the framework must be live
toggle_after_framework(status) ==
    IF status # "live"
    THEN End_(Abort(400))
    ELSE Next_("t_find")

\* the message flashed: the template filled with the names of services[0],
\* joined with the reindex-delay notice
toggle_flash(action) ==
    <<action.flash_message, "frameworkName", "supplierName",
      SUPPLIER_SERVICES_DELAYED_INDEX_MESSAGE>>

\* toggle_after_update leaving the loop after the first service
toggle_after_update_first_only(action, k, n) ==
    End_(Redirect("find_supplier_services", toggle_flash(action)))

\* after the k-th of n updates: the next service, or the flash and redirect
toggle_after_update(action, k, n) ==
    IF k < n
    THEN Next_("t_update")
    ELSE End_(Redirect("find_supplier_services", toggle_flash(action)))

\* toggle_after_failed_update with the exception caught around the loop: the
\* request goes on to the flash and the redirect
toggle_after_failed_update_caught(action, k, n) ==
    End_(Redirect("find_supplier_services", toggle_flash(action)))

\* the k-th update raised: nothing in the loop catches the exception, so the
\* request ends there, with the services before the k-th updated and no undo
toggle_after_failed_update(action, k, n) == End_(Raised)

\* toggle_after_find with the 'if not services' test lost
toggle_after_find_no_check(action, found) ==
    IF found = <<>>
    THEN End_(Redirect("find_supplier_services", toggle_flash(action)))
    ELSE Next_("t_update")

\* no service in the old status: 400
toggle_after_find(action, found) ==
    IF found = <<>>
    THEN End_(Abort(400))
    ELSE Next_("t_update")

ToggleHandler(w) == req[w].handler = "toggle_supplier_services"

\* the request arguments, then data_api_client.get_framework(framework_slug)
ToggleRequest(w) ==
    /\ \E remove_services \in {"", "fw"}, publish_services \in {"", "fw"}, ok \in BOOLEAN :
        LET action == toggle_action(remove_services, publish_services)
        IN  /\ req' = [req EXCEPT ![w] =
                          [handler |-> "toggle_supplier_services", method |-> "POST",
                           arg |-> [remove |-> remove_services,
                                    publish |-> publish_services]]]
            /\ loc' = [loc EXCEPT ![w] =
                          [NoToggleLocals EXCEPT !.toggle_action = action,
                                                 !.before = services]]
            /\ IF action.framework_slug = ""
               THEN /\ calls' = [calls EXCEPT ![w] = <<>>]
                    /\ Finish(w, Abort(400))
               ELSE /\ FirstLog(w, Call("get_framework", framework.status, ok))
                    /\ IF ok
                       THEN Continue(w, toggle_after_framework(framework.status))
                       ELSE Finish(w, Raised)
    /\ UNCHANGED <<agreement, bucket, clock, framework, session, supplier, drafts, content, declaration, services>>

ToggleGetFramework(w) == Accept(w) /\ ToggleRequest(w)

\* data_api_client.find_services_iter(supplier_id, framework, status=old_status)
ToggleFindServices(w) ==
    /\ pc[w] = "t_find"
    /\ \E ok \in BOOLEAN :
        /\ Log(w, Call("find_services_iter", loc[w].toggle_action.old_status, ok))
        /\ IF ok
           THEN LET found == Listed(Matching(services, loc[w].toggle_action.old_status))
                IN  /\ Continue(w, toggle_after_find(loc[w].toggle_action, found))
                    /\ loc' = [loc EXCEPT ![w].services = found, ![w].k = 1]
           ELSE /\ Finish(w, Raised)
                /\ UNCHANGED loc
    /\ UNCHANGED <<agreement, bucket, clock, framework, session, supplier, drafts, content, declaration, services,
                   req, served>>

\* data_api_client.update_service_status(service['id'], new_status, ...) for
\* the k-th service of the loop
ToggleUpdate(w) ==
    /\ pc[w] = "t_update"
    /\ \E ok \in BOOLEAN :
        LET id == loc[w].services[loc[w].k]
            new_status == loc[w].toggle_action.new_status
        IN  /\ Log(w, Call("update_service_status", <<id, new_status>>, ok))
            /\ IF ok
               THEN /\ services' = [services EXCEPT ![id] = new_status]
                    /\ Continue(w, toggle_after_update(loc[w].toggle_action, loc[w].k,
                                                       Len(loc[w].services)))
                    /\ loc' = [loc EXCEPT ![w].k = @ + 1]
               ELSE /\ UNCHANGED <<services, loc>>
                    /\ Continue(w, toggle_after_failed_update(loc[w].toggle_action,
                                                              loc[w].k,
                                                              Len(loc[w].services)))
    /\ UNCHANGED <<agreement, bucket, clock, framework, session, supplier, drafts, content, declaration, req, served>>

InitToggle ==
    /\ agreement = [status |-> "none", onFramework |-> FALSE, countersignedPath |-> None]
    /\ bucket = {}
    /\ clock = 0
    /\ framework \in [status : FrameworkStatuses]
    /\ declaration = [found |-> FALSE, answers |-> <<>>]
    /\ services \in [ServiceIds -> ServiceStatuses]
    /\ session = [w \in Workers |-> NoSession]
    /\ supplier = NoSupplier
    /\ drafts = <<>>
    /\ content = {}
    /\ pc = [w \in Workers |-> "idle"]
    /\ req = [w \in Workers |-> NoReq]
    /\ loc = [w \in Workers |-> NoToggleLocals]
    /\ calls = [w \in Workers |-> <<>>]
    /\ resp = [w \in Workers |-> NoResp]
    /\ served = 0

NextToggle ==
    \/ ToggleGetFramework("w1")
    \/ ToggleFindServices("w1")
    \/ ToggleUpdate("w1")

SpecToggle == InitToggle /\ [][NextToggle]_vars

----------------------------------------------------------------------------
\* toggle requests one after another, served by the two workers in turn: the
\* log of the request before the last one is still there to look at

\* the worker whose turn it is accepts a request when no request is running
InTurn(w) ==
    /\ \A v \in Workers : pc[v] = "idle"
    /\ w = (IF served % 2 = 0 THEN "w1" ELSE "w2")
    /\ served < MaxRequests
    /\ served' = served + 1

ToggleGetFrameworkInTurn(w) == InTurn(w) /\ ToggleRequest(w)

NextToggleSequence ==
    \/ \E w \in Workers : ToggleGetFrameworkInTurn(w)
    \/ \E w \in Workers : ToggleFindServices(w)
    \/ \E w \in Workers : ToggleUpdate(w)

SpecToggleSequence == InitToggle /\ [][NextToggleSequence]_vars

----------------------------------------------------------------------------
\* find_supplier_draft_services (GET): the supplier's draft services by
\* framework, each with its count of unanswered required questions

FrameworkSlugs == {"digital-outcomes-and-specialists-4", "g-cloud-12"}

\* the order of the slugs as Python compares strings
SlugRank == [s \in FrameworkSlugs |->
                IF s = "digital-outcomes-and-specialists-4" THEN 1 ELSE 2]

\* the required questions of an 'edit_service_as_admin' manifest
RequiredQuestions == {"r1"}

\* the number of draft services the data API returns
MaxDrafts == 2

\* the lists of n draft services the data API can return, ids 1..n
DraftServices(n) ==
    {ds \in [1..n -> [id : 1..n, frameworkSlug : FrameworkSlugs, createdAt : 1..2,
                      answered : SUBSET RequiredQuestions]] :
        \A i \in 1..n : ds[i].id = i}

\* (frameworkSlug, createdAt) of a before that of b
KeyLess(a, b) ==
    \/ SlugRank[a.frameworkSlug] < SlugRank[b.frameworkSlug]
    \/ /\ a.frameworkSlug = b.frameworkSlug
       /\ a.createdAt < b.createdAt

RECURSIVE InsertSorted(_, _)
\* d placed in the sorted list before the first element with a greater key
InsertSorted(seq, d) ==
    IF seq = <<>> THEN <<d>>
    ELSE IF KeyLess(d, Head(seq)) THEN <<d>> \o seq
    ELSE <<Head(seq)>> \o InsertSorted(Tail(seq), d)

RECURSIVE sorted(_)
\* sorted(..., key=(frameworkSlug, createdAt)): stable
sorted(seq) ==
    IF seq = <<>> THEN <<>>
    ELSE InsertSorted(sorted(SubSeq(seq, 1, Len(seq) - 1)), seq[Len(seq)])

RECURSIVE RunLength(_, _)
\* the length of the leading run of seq with framework slug key
RunLength(seq, key) ==
    IF seq = <<>> \/ Head(seq).frameworkSlug # key THEN 0
    ELSE 1 + RunLength(Tail(seq), key)

RECURSIVE groupby(_)
\* groupby(..., key=frameworkSlug): the consecutive runs of equal slug
groupby(seq) ==
    IF seq = <<>> THEN <<>>
    ELSE LET key == Head(seq).frameworkSlug
             n == RunLength(seq, key)
         IN  <<[key |-> key, group |-> SubSeq(seq, 1, n)]>>
                 \o groupby(SubSeq(seq, n + 1, Len(seq)))

\* count_unanswered_questions(manifest.filter(draft).summary(draft))[0]
count_unanswered_questions(draft_service) ==
    Cardinality(RequiredQuestions \ draft_service.answered)

Annotated(draft_service) ==
    [id |-> draft_service.id, frameworkSlug |-> draft_service.frameworkSlug,
     createdAt |-> draft_service.createdAt, answered |-> draft_service.answered,
     unansweredRequiredCount |-> count_unanswered_questions(draft_service)]

\* _draft_services_annotated_unanswered_counts with every manifest found
draft_services_annotated_unanswered_counts_no_except(framework_slug, draft_services, manifests) ==
    [manifest |-> TRUE,
     services |-> [i \in DOMAIN draft_services |-> Annotated(draft_services[i])]]

\* _draft_services_annotated_unanswered_counts: manifest = FALSE is the None
\* returned when get_manifest raises ContentNotFoundError
draft_services_annotated_unanswered_counts(framework_slug, draft_services, manifests) ==
    IF framework_slug \notin manifests
    THEN [manifest |-> FALSE, services |-> <<>>]
    ELSE [manifest |-> TRUE,
          services |-> [i \in DOMAIN draft_services |-> Annotated(draft_services[i])]]

\* the dict comprehension of find_supplier_draft_services: a later group of
\* the same slug would replace an earlier one
frameworks_draft_services(found, manifests) ==
    LET groups == groupby(sorted(found))
        annotated(i) == draft_services_annotated_unanswered_counts(
                            groups[i].key, groups[i].group, manifests)
        kept == {i \in DOMAIN groups : annotated(i).manifest}
        last(slug) == CHOOSE i \in kept :
                          /\ groups[i].key = slug
                          /\ \A j \in kept : groups[j].key = slug => j <= i
    IN  [slug \in {groups[i].key : i \in kept} |-> annotated(last(slug)).services]

\* the framework statuses whose frameworks the page lists, by role
visible_framework_statuses(role) ==
    IF role = "admin-ccs-sourcing"
    THEN {"pending", "standstill", "live", "expired"}
    ELSE IF role = "admin-framework-manager"
    THEN {"open", "pending", "standstill", "live", "expired"}
    ELSE {}

NoDraftsLocals == [frameworks |-> {}, frameworks_draft_services |-> <<>>]

DraftsHandler(w) == req[w].handler = "find_supplier_draft_services"

\* data_api_client.get_supplier(supplier_id)
DraftsGetSupplier(w) ==
    /\ Accept(w)
    /\ req' = [req EXCEPT ![w] = [handler |-> "find_supplier_draft_services",
                                  method |-> "GET", arg |-> "none"]]
    /\ loc' = [loc EXCEPT ![w] = NoDraftsLocals]
    /\ \E ok \in BOOLEAN :
        /\ FirstLog(w, Call("get_supplier", "", ok))
        /\ IF ok THEN Goto(w, "f_find_frameworks") ELSE Finish(w, Raised)
    /\ UNCHANGED <<agreement, bucket, clock, framework, session, supplier, drafts,
                   content, declaration, services>>

\* data_api_client.find_frameworks()
DraftsFindFrameworks(w) ==
    /\ pc[w] = "f_find_frameworks"
    /\ \E ok \in BOOLEAN :
        /\ Log(w, Call("find_frameworks", "", ok))
        /\ IF ok THEN Goto(w, "f_find_draft_services") ELSE Finish(w, Raised)
    /\ UNCHANGED <<agreement, bucket, clock, framework, session, supplier, drafts,
                   content, declaration, services, req, loc, served>>

\* data_api_client.find_draft_services_iter(supplier_id), read to its end by
\* sorted(), then the grouping, the annotation and the page
DraftsFindDraftServices(w) ==
    /\ pc[w] = "f_find_draft_services"
    /\ \E ok \in BOOLEAN :
        /\ Log(w, Call("find_draft_services_iter", "", ok))
        /\ IF ok
           THEN /\ loc' = [loc EXCEPT ![w] =
                    [frameworks |->
                        IF framework.status \in visible_framework_statuses(session[w])
                        THEN {framework} ELSE {},
                     frameworks_draft_services |->
                        frameworks_draft_services(drafts, content)]]
                /\ Finish(w, [code |-> 200, flash |-> <<>>,
                              location |-> "view_supplier_draft_services.html"])
           ELSE /\ UNCHANGED loc
                /\ Finish(w, Raised)
    /\ UNCHANGED <<agreement, bucket, clock, framework, session, supplier, drafts,
                   content, declaration, services, req, served>>

InitDrafts ==
    /\ agreement = [status |-> "none", onFramework |-> FALSE, countersignedPath |-> None]
    /\ bucket = {}
    /\ clock = 0
    /\ framework \in [status : {"open", "live"}]
    /\ declaration = [found |-> FALSE, answers |-> <<>>]
    /\ services = <<>>
    /\ session \in {[w \in Workers |-> role] :
                       role \in {"admin-framework-manager", "admin-ccs-sourcing"}}
    /\ supplier = NoSupplier
    /\ drafts \in UNION {DraftServices(n) : n \in 0..MaxDrafts}
    /\ content \in SUBSET FrameworkSlugs
    /\ pc = [w \in Workers |-> "idle"]
    /\ req = [w \in Workers |-> NoReq]
    /\ loc = [w \in Workers |-> NoDraftsLocals]
    /\ calls = [w \in Workers |-> <<>>]
    /\ resp = [w \in Workers |-> NoResp]
    /\ served = 0

NextDrafts ==
    \/ DraftsGetSupplier("w1")
    \/ DraftsFindFrameworks("w1")
    \/ DraftsFindDraftServices("w1")

SpecDrafts == InitDrafts /\ [][NextDrafts]_vars

----------------------------------------------------------------------------
\* The agreement pages: view_signed_agreement, list_countersigned_agreement_file,
\* download_signed_agreement_file, download_agreement_file and
\* unapprove_agreement_for_countersignature; requests served one at a time

\* the key of the supplier's signed agreement in the agreements bucket
SignedPath == <<-1>>

\* degenerate_document_path_and_return_doc_name(path)
degenerate_document_path_and_return_doc_name(path) == path[1]

\* get_document_path(framework_slug, supplier_id, 'agreements', document_name)
get_document_path(document_name) == <<document_name>>

\* supplier_framework.get("declaration"): a declaration with answers
HasDeclaration == declaration.found /\ DOMAIN declaration.answers # {}

NoFramework == [status |-> "coming", frameworkAgreementVersion |-> Null,
                isESignatureSupported |-> FALSE]

NoViewLocals ==
    [framework |-> NoFramework,
     supplier_framework |-> [status |-> "none", onFramework |-> FALSE,
                             countersignedPath |-> None, agreementPath |-> None],
     path |-> None, agreement_url |-> None]

\* render_template(template)
Render(template) == [code |-> 200, flash |-> <<>>, location |-> template]

ViewHandler(w) == req[w].handler = "view_signed_agreement"

\* view_signed_agreement: 404 for a framework without an agreement version
view_after_framework(handler, fw) ==
    IF handler = "view_signed_agreement" /\ fw.frameworkAgreementVersion = Null
    THEN End_(Abort(404))
    ELSE Next_("v_lookup")

\* view_after_lookup with the agreementReturned test lost
view_after_lookup_unchecked(handler, supplier_framework) ==
    IF handler = "view_signed_agreement"
    THEN Next_("v_find_services")
    ELSE IF ~supplier_framework.onFramework
            \/ supplier_framework.status \in {"none", "draft"}
    THEN End_(Abort(404))
    ELSE Next_("l_get_key")

\* view_signed_agreement: 404 unless the agreement was returned;
\* list_countersigned_agreement_file: 404 unless on the framework with an
\* agreement that is not a draft
view_after_lookup(handler, supplier_framework) ==
    IF handler = "view_signed_agreement"
    THEN IF ~AgreementReturned(supplier_framework)
         THEN End_(Abort(404))
         ELSE Next_("v_find_services")
    ELSE IF ~supplier_framework.onFramework
            \/ supplier_framework.status \in {"none", "draft"}
    THEN End_(Abort(404))
    ELSE Next_("l_get_key")

\* the document the agreement page links to
view_path(fw, supplier_framework) ==
    IF ~fw.isESignatureSupported
    THEN supplier_framework.agreementPath
    ELSE supplier_framework.countersignedPath

view_template(fw) ==
    IF ~fw.isESignatureSupported
    THEN "suppliers/view_signed_agreement.html"
    ELSE "suppliers/view_esignature_agreement.html"

\* data_api_client.get_supplier(supplier_id)
ViewGetSupplier(w) ==
    /\ Accept(w)
    /\ \E handler \in {"view_signed_agreement", "list_countersigned_agreement_file"},
          status \in Outcomes :
        /\ req' = [req EXCEPT ![w] = [handler |-> handler, method |-> "GET", arg |-> "none"]]
        /\ FirstLog(w, Call("get_supplier", status, status = "200"))
        /\ IF status = "200" THEN Goto(w, "v_get_framework") ELSE Finish(w, Raised)
    /\ loc' = [loc EXCEPT ![w] = NoViewLocals]
    /\ UNCHANGED <<agreement, bucket, clock, framework, session, supplier, drafts,
                   content, declaration, services>>

\* data_api_client.get_framework(framework_slug)
ViewGetFramework(w) ==
    /\ pc[w] = "v_get_framework"
    /\ \E status \in Outcomes :
        /\ Log(w, Call("get_framework", status, status = "200"))
        /\ IF status = "200"
           THEN /\ loc' = [loc EXCEPT ![w].framework = framework]
                /\ Continue(w, view_after_framework(req[w].handler, framework))
           ELSE /\ UNCHANGED loc
                /\ Finish(w, Raised)
    /\ UNCHANGED <<agreement, bucket, clock, framework, session, supplier, drafts,
                   content, declaration, services, req, served>>

\* data_api_client.get_supplier_framework_info(supplier_id, framework_slug)
ViewLookup(w) ==
    /\ pc[w] = "v_lookup"
    /\ \E status \in Outcomes :
        /\ Log(w, Call("get_supplier_framework_info", status, status = "200"))
        /\ IF ~agreement_lookup_raises(status)
           THEN /\ loc' = [loc EXCEPT ![w].supplier_framework = agreement]
                /\ Continue(w, view_after_lookup(req[w].handler, agreement))
           ELSE /\ UNCHANGED loc
                /\ Finish(w, Raised)
    /\ UNCHANGED <<agreement, bucket, clock, framework, session, supplier, drafts,
                   content, declaration, services, req, served>>

\* the lot names: find_services_iter for a live or expired framework,
\* find_draft_services_iter otherwise; then the path of the document
ViewFindServices(w) ==
    /\ pc[w] = "v_find_services"
    /\ \E ok \in BOOLEAN :
        LET op == IF loc[w].framework.status \in {"live", "expired"}
                  THEN "find_services_iter" ELSE "find_draft_services_iter"
            path == view_path(loc[w].framework, loc[w].supplier_framework)
        IN  /\ Log(w, Call(op, "", ok))
            /\ IF ok
               THEN /\ loc' = [loc EXCEPT ![w].path = path]
                    /\ IF path # None
                       THEN Goto(w, "v_signed_url")
                       ELSE Finish(w, Render(view_template(loc[w].framework)))
               ELSE /\ UNCHANGED loc
                    /\ Finish(w, Raised)
    /\ UNCHANGED <<agreement, bucket, clock, framework, session, supplier, drafts,
                   content, declaration, services, req, served>>

\* get_signed_url(agreements_bucket, path, ...): no URL for a missing key
ViewSignedUrl(w) ==
    /\ pc[w] = "v_signed_url"
    /\ \E ok \in BOOLEAN :
        /\ Log(w, Call("get_signed_url", loc[w].path, ok))
        /\ IF ok
           THEN /\ loc' = [loc EXCEPT ![w].agreement_url =
                              IF loc[w].path \in bucket THEN loc[w].path ELSE None]
                /\ Finish(w, Render(view_template(loc[w].framework)))
           ELSE /\ UNCHANGED loc
                /\ Finish(w, Raised)
    /\ UNCHANGED <<agreement, bucket, clock, framework, session, supplier, drafts,
                   content, declaration, services, req, served>>

\* agreements_bucket.get_key(supplier_framework.get('countersignedPath'))
ListGetKey(w) ==
    /\ pc[w] = "l_get_key"
    /\ \E ok \in BOOLEAN :
        LET path == loc[w].supplier_framework.countersignedPath
        IN  /\ Log(w, Call("get_key", path, ok))
            /\ IF ok
               THEN /\ loc' = [loc EXCEPT ![w].path = IF path \in bucket THEN path ELSE None]
                    /\ Finish(w, Render("suppliers/upload_countersigned_agreement.html"))
               ELSE /\ UNCHANGED loc
                    /\ Finish(w, Raised)
    /\ UNCHANGED <<agreement, bucket, clock, framework, session, supplier, drafts,
                   content, declaration, services, req, served>>

\* download_signed_agreement_file: 404 without an agreementPath, else the
\* body of download_agreement_file for the document of that path
download_signed_after_lookup(supplier_framework) ==
    IF supplier_framework.agreementPath = None
    THEN End_(Abort(404))
    ELSE Next_("dl_lookup")

\* download_agreement_file: 404 without a declaration
download_after_lookup(has_declaration) ==
    IF ~has_declaration
    THEN End_(Abort(404))
    ELSE Next_("dl_signed_url")

\* download_signed_agreement_file: get_supplier_framework_info
DownloadSignedLookup(w) ==
    /\ Accept(w)
    /\ req' = [req EXCEPT ![w] = [handler |-> "download_signed_agreement_file",
                                  method |-> "GET", arg |-> "none"]]
    /\ \E status \in Outcomes :
        /\ FirstLog(w, Call("get_supplier_framework_info", status, status = "200"))
        /\ IF ~agreement_lookup_raises(status)
           THEN /\ loc' = [loc EXCEPT ![w] =
                    [NoViewLocals EXCEPT
                        !.supplier_framework = agreement,
                        !.path = IF agreement.agreementPath = None THEN None
                                 ELSE get_document_path(
                                          degenerate_document_path_and_return_doc_name(
                                              agreement.agreementPath))]]
                /\ Continue(w, download_signed_after_lookup(agreement))
           ELSE /\ loc' = [loc EXCEPT ![w] = NoViewLocals]
                /\ Finish(w, Raised)
    /\ UNCHANGED <<agreement, bucket, clock, framework, session, supplier, drafts,
                   content, declaration, services>>

\* download_agreement_file: get_supplier_framework_info, as a request of its
\* own for a document name or called by download_signed_agreement_file
DownloadLookup(w) ==
    /\ \/ /\ Accept(w)
          /\ \E document_name \in {-1, 0} :
              /\ req' = [req EXCEPT ![w] = [handler |-> "download_agreement_file",
                                            method |-> "GET", arg |-> "none"]]
              /\ loc' = [loc EXCEPT ![w] =
                            [NoViewLocals EXCEPT !.path = get_document_path(document_name)]]
          /\ \E status \in Outcomes :
              /\ FirstLog(w, Call("get_supplier_framework_info", status, status = "200"))
              /\ IF ~agreement_lookup_raises(status)
                 THEN Continue(w, download_after_lookup(HasDeclaration))
                 ELSE Finish(w, Raised)
       \/ /\ pc[w] = "dl_lookup"
          /\ UNCHANGED <<req, loc, served>>
          /\ \E status \in Outcomes :
              /\ Log(w, Call("get_supplier_framework_info", status, status = "200"))
              /\ IF ~agreement_lookup_raises(status)
                 THEN Continue(w, download_after_lookup(HasDeclaration))
                 ELSE Finish(w, Raised)
    /\ UNCHANGED <<agreement, bucket, clock, framework, session, supplier, drafts,
                   content, declaration, services>>

\* get_signed_url(agreements_bucket, path, ...): redirect to the URL, 404 for
\* a missing key
DownloadSignedUrl(w) ==
    /\ pc[w] = "dl_signed_url"
    /\ \E ok \in BOOLEAN :
        /\ Log(w, Call("get_signed_url", loc[w].path, ok))
        /\ IF ok
           THEN IF loc[w].path \in bucket
                THEN /\ loc' = [loc EXCEPT ![w].agreement_url = loc[w].path]
                     /\ Finish(w, Redirect("agreement_url", <<>>))
                ELSE /\ UNCHANGED loc
                     /\ Finish(w, Abort(404))
           ELSE /\ UNCHANGED loc
                /\ Finish(w, Raised)
    /\ UNCHANGED <<agreement, bucket, clock, framework, session, supplier, drafts,
                   content, declaration, services, req, served>>

\* unapprove_after_call with the page of approve_agreement_for_countersignature
unapprove_after_call_as_approve(ok) ==
    IF ok
    THEN Redirect("next_agreement", <<AGREEMENT_APPROVED_MESSAGE>>)
    ELSE Raised

\* unapprove_agreement_for_countersignature after the API call
unapprove_after_call(ok) ==
    IF ok
    THEN Redirect("view_signed_agreement", <<AGREEMENT_APPROVAL_CANCELLED_MESSAGE>>)
    ELSE Raised

\* unapprove_agreement_for_countersignature (POST): the handler passes the
\* agreement id to the API; the API cancels the approval of an approved
\* agreement and refuses any other
UnapproveAgreement(w) ==
    /\ Accept(w)
    /\ \E ok \in BOOLEAN :
        /\ ok => agreement.status = "approved"
        /\ req' = [req EXCEPT ![w] = [handler |-> "unapprove_agreement_for_countersignature",
                                      method |-> "POST", arg |-> "none"]]
        /\ FirstLog(w, Call("unapprove_agreement_for_countersignature", agreement.status, ok))
        /\ loc' = [loc EXCEPT ![w] = NoAgreementLocals]
        /\ agreement' = IF ok THEN [agreement EXCEPT !.status = "signed"] ELSE agreement
        /\ Finish(w, unapprove_after_call(ok))
    /\ UNCHANGED <<bucket, clock, framework, session, supplier, drafts, content,
                   declaration, services>>

InitViews ==
    /\ agreement \in {a \in [status : AgreementStatuses, onFramework : BOOLEAN,
                             countersignedPath : {None, <<0>>},
                             agreementPath : {None, SignedPath}] :
                         /\ a.countersignedPath # None => a.status = "countersigned"
                         /\ a.agreementPath # None => AgreementReturned(a)}
    /\ bucket \in {({agreement.countersignedPath} \ {None}) \cup signed :
                      signed \in SUBSET ({agreement.agreementPath} \ {None})}
    /\ clock = 0
    /\ framework \in [status : {"standstill", "live"},
                      frameworkAgreementVersion : {Null, "v1.0"},
                      isESignatureSupported : BOOLEAN]
    /\ declaration \in {[found |-> FALSE, answers |-> <<>>],
                        [found |-> TRUE, answers |-> [q \in {"q1"} |-> "a"]]}
    /\ services = <<>>
    /\ session = [w \in Workers |-> NoSession]
    /\ supplier = NoSupplier
    /\ drafts = <<>>
    /\ content = {}
    /\ pc = [w \in Workers |-> "idle"]
    /\ req = [w \in Workers |-> NoReq]
    /\ loc = [w \in Workers |-> NoViewLocals]
    /\ calls = [w \in Workers |-> <<>>]
    /\ resp = [w \in Workers |-> NoResp]
    /\ served = 0

NextViews ==
    \/ ViewGetSupplier("w1")
    \/ ViewGetFramework("w1")
    \/ ViewLookup("w1")
    \/ ViewFindServices("w1")
    \/ ViewSignedUrl("w1")
    \/ ListGetKey("w1")
    \/ DownloadSignedLookup("w1")
    \/ DownloadLookup("w1")
    \/ DownloadSignedUrl("w1")
    \/ UnapproveAgreement("w1")
    \/ ApproveAgreement("w1")
    \/ UploadLookup("w1")
    \/ UploadGetSupplier("w1")
    \/ UploadApprove("w1")
    \/ UploadGenPath("w1")
    \/ UploadSave("w1")
    \/ UploadUpdate("w1")
    \/ UploadAudit("w1")
    \/ RemoveLookup("w1")
    \/ RemoveUpdate("w1")
    \/ RemoveDelete("w1")
    \/ RemoveAudit("w1")

SpecViews == InitViews /\ [][NextViews]_vars

----------------------------------------------------------------------------
\* The role guard: @role_required(...) in front of a route's handler

Roles == {"admin", "admin-ccs-category", "admin-ccs-sourcing",
          "admin-framework-manager", "admin-ccs-data-controller"}

\* allowed_roles with the sourcing role let into the services toggle
allowed_roles_toggle_for_sourcing ==
    [toggle_supplier_services |-> {"admin-ccs-category", "admin-ccs-sourcing"},
     upload_countersigned_agreement_file |-> {"admin-ccs-sourcing"}]

\* the roles named by the decorator of each route
allowed_roles ==
    [toggle_supplier_services |-> {"admin-ccs-category"},
     upload_countersigned_agreement_file |-> {"admin-ccs-sourcing"}]

\* role_required(*roles): the user's role is one of the roles of the route
role_required(roles, role) == role \in roles

\* the request is rejected by the guard: the handler is not entered
Forbidden(w, handler) ==
    /\ Accept(w)
    /\ req' = [req EXCEPT ![w] = [handler |-> handler, method |-> "POST", arg |-> "none"]]
    /\ calls' = [calls EXCEPT ![w] = <<>>]
    /\ Finish(w, Abort(403))
    /\ UNCHANGED <<agreement, bucket, clock, framework, session, supplier, drafts,
                   content, declaration, services, loc>>

\* a request for the route of handler by the user of w's session: view is the
\* first step of the handler
RoleRequired(w, handler, view) ==
    IF role_required(allowed_roles[handler], session[w])
    THEN view
    ELSE Forbidden(w, handler)

InitRoles ==
    /\ agreement \in [status : {"draft", "signed"}, onFramework : BOOLEAN,
                      countersignedPath : {None}]
    /\ bucket = {}
    /\ clock = 0
    /\ framework \in [status : {"live", "expired"}]
    /\ declaration = [found |-> FALSE, answers |-> <<>>]
    /\ services \in [ServiceIds -> {"published", "disabled"}]
    /\ session \in {[w \in Workers |-> role] : role \in Roles}
    /\ supplier = NoSupplier
    /\ drafts = <<>>
    /\ content = {}
    /\ pc = [w \in Workers |-> "idle"]
    /\ req = [w \in Workers |-> NoReq]
    /\ loc = [w \in Workers |-> NoToggleLocals]
    /\ calls = [w \in Workers |-> <<>>]
    /\ resp = [w \in Workers |-> NoResp]
    /\ served = 0

NextRoles ==
    \/ RoleRequired("w1", "toggle_supplier_services", ToggleGetFramework("w1"))
    \/ ToggleFindServices("w1")
    \/ ToggleUpdate("w1")
    \/ RoleRequired("w1", "upload_countersigned_agreement_file", UploadLookup("w1"))
    \/ UploadGetSupplier("w1")
    \/ UploadApprove("w1")
    \/ UploadGenPath("w1")
    \/ UploadSave("w1")
    \/ UploadUpdate("w1")
    \/ UploadAudit("w1")

SpecRoles == InitRoles /\ [][NextRoles]_vars

----------------------------------------------------------------------------
\* The supplier's details and users: edit_supplier_registered_name,
\* edit_supplier_registered_company_number, edit_supplier_registered_address,
\* move_user_to_new_supplier and invite_user; requests served one at a time

SUPPLIER_DETAILS_UPDATED_MESSAGE == "The details for {supplier_name} have been updated."
USER_INVITED_MESSAGE == "User invited"
USER_MOVED_MESSAGE == "User moved to this supplier"
USER_NOT_MOVED_MESSAGE == "User not moved to this supplier"

EditHandlers == {"edit_supplier_registered_name",
                 "edit_supplier_registered_company_number",
                 "edit_supplier_registered_address"}

UserHandlers == {"move_user_to_new_supplier", "invite_user"}

\* the template each handler renders its form with
FormTemplate ==
    [edit_supplier_registered_name |-> "suppliers/edit_registered_name.html",
     edit_supplier_registered_company_number |-> "suppliers/edit_registered_company_number.html",
     edit_supplier_registered_address |-> "suppliers/edit_registered_address.html",
     move_user_to_new_supplier |-> "view_supplier_users.html",
     invite_user |-> "view_supplier_users.html"]

\* the email addresses of the user accounts the data API knows
KnownUsers == {"u1@example.com"}

\* str.upper() on the company numbers a form can carry
Upper == [s \in {"", "ab12", "AB12"} |-> IF s = "ab12" THEN "AB12" ELSE s]

\* the forms a request for the handler can carry
Forms(handler) ==
    IF handler = "edit_supplier_registered_company_number"
    THEN [valid : BOOLEAN, companies_house_number : DOMAIN Upper,
          other_company_registration_number : {"", "x9"}, value : {""},
          email_address : {""}]
    ELSE IF handler \in EditHandlers
    THEN [valid : BOOLEAN, companies_house_number : {""},
          other_company_registration_number : {""}, value : {"n1"}, email_address : {""}]
    ELSE [valid : BOOLEAN, companies_house_number : {""},
          other_company_registration_number : {""}, value : {""},
          email_address : {"u1@example.com", "u2@example.com"}]

\* form.validate_on_submit(): the form was posted and its validators pass
validate_on_submit(method, form) == method = "POST" /\ form.valid

\* get_errors_from_wtform(form): a posted form that fails validation has
\* errors, a form that was not posted or is valid has none
get_errors_from_wtform(method, form) ==
    IF method = "POST" /\ ~form.valid THEN {"error"} ELSE {}

\* the payload with the other number left out of the second variant's clearing
company_number_payload_keeping_other(form) ==
    IF form.companies_house_number # ""
    THEN [companiesHouseNumber |-> Upper[form.companies_house_number],
          otherCompanyRegistrationNumber |-> form.other_company_registration_number]
    ELSE [companiesHouseNumber |-> Null,
          otherCompanyRegistrationNumber |-> form.other_company_registration_number]

\* update_supplier_payload of edit_supplier_registered_company_number
company_number_payload(form) ==
    IF form.companies_house_number # ""
    THEN [companiesHouseNumber |-> Upper[form.companies_house_number],
          otherCompanyRegistrationNumber |-> Null]
    ELSE [companiesHouseNumber |-> Null,
          otherCompanyRegistrationNumber |-> form.other_company_registration_number]

\* update_declaration_payload of edit_supplier_registered_company_number
declaration_payload(form) ==
    [supplierCompanyRegistrationNumber |->
        IF form.companies_house_number # ""
        THEN Upper[form.companies_house_number]
        ELSE form.other_company_registration_number]

\* the payload of the handler's update_supplier call
update_supplier_payload(handler, form) ==
    IF handler = "edit_supplier_registered_name"
    THEN [registeredName |-> form.value]
    ELSE IF handler = "edit_supplier_registered_company_number"
    THEN company_number_payload(form)
    ELSE [registrationCountry |-> form.value]

\* render_template(...), 200 if not errors else 400
edit_render(handler, errors) ==
    End_([code |-> IF errors = {} THEN 200 ELSE 400, flash |-> <<>>,
          location |-> FormTemplate[handler]])

\* the step of an edit handler once the form is built
edit_after_form(handler, method, form, validated_next) ==
    IF validate_on_submit(method, form)
    THEN Next_(validated_next)
    ELSE edit_render(handler, get_errors_from_wtform(method, form))

\* move_user_to_new_supplier and invite_user with the validation test lost
users_after_supplier_always_valid(handler, method, form) ==
    IF handler = "move_user_to_new_supplier" THEN Next_("m_get_user")
    ELSE Next_("i_send_email")

\* move_user_to_new_supplier and invite_user once the supplier is read
users_after_supplier(handler, method, form) ==
    IF validate_on_submit(method, form)
    THEN IF handler = "move_user_to_new_supplier"
         THEN Next_("m_get_user")
         ELSE Next_("i_send_email")
    ELSE Next_("s_render_users")

\* the step after get_supplier returned
after_get_supplier(handler, method, form) ==
    IF handler = "edit_supplier_registered_company_number"
    THEN Next_("s_find_frameworks")
    ELSE IF handler \in EditHandlers
    THEN edit_after_form(handler, method, form, "s_update_supplier")
    ELSE users_after_supplier(handler, method, form)

SupplierDetailsUpdated ==
    Redirect("supplier_details", <<SUPPLIER_DETAILS_UPDATED_MESSAGE>>)

NoSupplierLocals == [supplier |-> NoSupplier, update_declaration |-> FALSE]

\* data_api_client.get_supplier(supplier_id); move_user_to_new_supplier and
\* invite_user answer 404 when the supplier is not found
SupGetSupplier(w) ==
    /\ Accept(w)
    /\ \E handler \in EditHandlers \cup UserHandlers, method \in {"GET", "POST"},
          status \in Outcomes :
        \E form \in Forms(handler) :
            /\ handler \in UserHandlers => method = "POST"
            /\ req' = [req EXCEPT ![w] = [handler |-> handler, method |-> method,
                                          arg |-> form]]
            /\ FirstLog(w, Call("get_supplier", status, status = "200"))
            /\ IF status = "200"
               THEN /\ loc' = [loc EXCEPT ![w] = [NoSupplierLocals EXCEPT !.supplier = supplier]]
                    /\ Continue(w, after_get_supplier(handler, method, form))
               ELSE /\ loc' = [loc EXCEPT ![w] = NoSupplierLocals]
                    /\ IF status = "404" /\ handler \in UserHandlers
                       THEN Finish(w, Abort(404))
                       ELSE Finish(w, Raised)
    /\ UNCHANGED <<agreement, bucket, clock, framework, session, supplier, drafts,
                   content, declaration, services>>

\* edit_supplier_registered_company_number: data_api_client.find_frameworks()
SupFindFrameworks(w) ==
    /\ pc[w] = "s_find_frameworks"
    /\ \E ok \in BOOLEAN :
        /\ Log(w, Call("find_frameworks", "", ok))
        /\ IF ok
           THEN Continue(w, edit_after_form(req[w].handler, req[w].method, req[w].arg,
                                            "s_get_supplier_frameworks"))
           ELSE Finish(w, Raised)
    /\ UNCHANGED <<agreement, bucket, clock, framework, session, supplier, drafts,
                   content, declaration, services, req, loc, served>>

\* data_api_client.get_supplier_frameworks(supplier_id): the most recent
\* framework interest the user's role may see, if any, and its declaration
SupGetSupplierFrameworks(w) ==
    /\ pc[w] = "s_get_supplier_frameworks"
    /\ \E ok \in BOOLEAN, visible \in BOOLEAN :
        /\ Log(w, Call("get_supplier_frameworks", "", ok))
        /\ IF ok
           THEN /\ loc' = [loc EXCEPT ![w].update_declaration = visible /\ HasDeclaration]
                /\ Goto(w, "s_update_supplier")
           ELSE /\ UNCHANGED loc
                /\ Finish(w, Raised)
    /\ UNCHANGED <<agreement, bucket, clock, framework, session, supplier, drafts,
                   content, declaration, services, req, served>>

\* the step after update_supplier returned
after_update_supplier(handler, update_declaration) ==
    IF handler = "edit_supplier_registered_name"
    THEN End_(SupplierDetailsUpdated)
    ELSE IF handler = "edit_supplier_registered_address"
    THEN Next_("s_update_contact")
    ELSE IF update_declaration
    THEN Next_("s_update_declaration")
    ELSE End_(SupplierDetailsUpdated)

\* data_api_client.update_supplier(supplier_id, payload, user): the API
\* stores the fields of the payload
SupUpdateSupplier(w) ==
    /\ pc[w] = "s_update_supplier"
    /\ \E ok \in BOOLEAN :
        LET payload == update_supplier_payload(req[w].handler, req[w].arg)
        IN  /\ Log(w, Call("update_supplier", payload, ok))
            /\ IF ok
               THEN /\ supplier' = [f \in DOMAIN supplier |->
                                       IF f \in DOMAIN payload THEN payload[f]
                                       ELSE supplier[f]]
                    /\ Continue(w, after_update_supplier(req[w].handler,
                                                         loc[w].update_declaration))
               ELSE /\ UNCHANGED supplier
                    /\ Finish(w, Raised)
    /\ UNCHANGED <<agreement, bucket, clock, framework, session, drafts,
                   content, declaration, services, req, loc, served>>

\* data_api_client.update_supplier_declaration(supplier_id, frameworkSlug, payload, user)
SupUpdateDeclaration(w) ==
    /\ pc[w] = "s_update_declaration"
    /\ \E ok \in BOOLEAN :
        LET payload == declaration_payload(req[w].arg)
        IN  /\ Log(w, Call("update_supplier_declaration", payload, ok))
            /\ IF ok
               THEN /\ declaration' = [declaration EXCEPT
                                           !.answers = Updated(declaration.answers, payload)]
                    /\ Finish(w, SupplierDetailsUpdated)
               ELSE /\ UNCHANGED declaration
                    /\ Finish(w, Raised)
    /\ UNCHANGED <<agreement, bucket, clock, framework, session, supplier, drafts,
                   content, services, req, loc, served>>

\* data_api_client.update_contact_information(supplier_id, contact['id'], {...}, user)
SupUpdateContact(w) ==
    /\ pc[w] = "s_update_contact"
    /\ \E ok \in BOOLEAN :
        /\ Log(w, Call("update_contact_information", req[w].arg.value, ok))
        /\ IF ok
           THEN /\ supplier' = [supplier EXCEPT !.address = req[w].arg.value]
                /\ Finish(w, SupplierDetailsUpdated)
           ELSE /\ UNCHANGED supplier
                /\ Finish(w, Raised)
    /\ UNCHANGED <<agreement, bucket, clock, framework, session, drafts,
                   content, declaration, services, req, loc, served>>

\* the users page with the form that did not validate: the template reads
\* find_users_iter(supplier_id)
SupRenderUsers(w) ==
    /\ pc[w] = "s_render_users"
    /\ \E ok \in BOOLEAN :
        /\ Log(w, Call("find_users_iter", "", ok))
        /\ IF ok
           THEN Finish(w, [code |-> 400, flash |-> <<>>,
                           location |-> FormTemplate[req[w].handler]])
           ELSE Finish(w, Raised)
    /\ UNCHANGED <<agreement, bucket, clock, framework, session, supplier, drafts,
                   content, declaration, services, req, loc, served>>

\* data_api_client.get_user(email_address=...): None for an unknown address
MoveGetUser(w) ==
    /\ pc[w] = "m_get_user"
    /\ \E ok \in BOOLEAN :
        /\ Log(w, Call("get_user", req[w].arg.email_address, ok))
        /\ IF ok
           THEN IF req[w].arg.email_address \in KnownUsers
                THEN Goto(w, "m_update_user")
                ELSE Finish(w, Redirect("find_supplier_users", <<USER_NOT_MOVED_MESSAGE>>))
           ELSE Finish(w, Raised)
    /\ UNCHANGED <<agreement, bucket, clock, framework, session, supplier, drafts,
                   content, declaration, services, req, loc, served>>

\* data_api_client.update_user(id, role='supplier', supplier_id=supplier_id, ...)
MoveUpdateUser(w) ==
    /\ pc[w] = "m_update_user"
    /\ \E ok \in BOOLEAN :
        /\ Log(w, Call("update_user", req[w].arg.email_address, ok))
        /\ IF ok
           THEN /\ supplier' = [supplier EXCEPT !.users = @ \cup {req[w].arg.email_address}]
                /\ Finish(w, Redirect("find_supplier_users", <<USER_MOVED_MESSAGE>>))
           ELSE /\ UNCHANGED supplier
                /\ Finish(w, Raised)
    /\ UNCHANGED <<agreement, bucket, clock, framework, session, drafts,
                   content, declaration, services, req, loc, served>>

\* send_user_account_email('supplier', email_address, ...)
InviteSendEmail(w) ==
    /\ pc[w] = "i_send_email"
    /\ \E ok \in BOOLEAN :
        /\ Log(w, Call("send_user_account_email", req[w].arg.email_address, ok))
        /\ IF ok THEN Goto(w, "i_audit") ELSE Finish(w, Raised)
    /\ UNCHANGED <<agreement, bucket, clock, framework, session, supplier, drafts,
                   content, declaration, services, req, loc, served>>

\* data_api_client.create_audit_event(audit_type=AuditTypes.invite_user, ...)
InviteAudit(w) ==
    /\ pc[w] = "i_audit"
    /\ \E ok \in BOOLEAN :
        /\ Log(w, Call("create_audit_event", req[w].arg.email_address, ok))
        /\ IF ok
           THEN Finish(w, Redirect("find_supplier_users", <<USER_INVITED_MESSAGE>>))
           ELSE Finish(w, Raised)
    /\ UNCHANGED <<agreement, bucket, clock, framework, session, supplier, drafts,
                   content, declaration, services, req, loc, served>>

InitSupplier ==
    /\ agreement = [status |-> "none", onFramework |-> FALSE, countersignedPath |-> None]
    /\ bucket = {}
    /\ clock = 0
    /\ framework = [status |-> "live"]
    /\ declaration \in {[found |-> FALSE, answers |-> <<>>],
                        [found |-> TRUE,
                         answers |-> [q \in {"supplierCompanyRegistrationNumber"} |-> "x9"]]}
    /\ services = <<>>
    /\ session = [w \in Workers |-> NoSession]
    /\ supplier \in {[NoSupplier EXCEPT !.companiesHouseNumber = ch,
                                        !.otherCompanyRegistrationNumber = other] :
                        ch \in {Null, "AB12"}, other \in {Null, "x9"}}
    /\ drafts = <<>>
    /\ content = {}
    /\ pc = [w \in Workers |-> "idle"]
    /\ req = [w \in Workers |-> NoReq]
    /\ loc = [w \in Workers |-> NoSupplierLocals]
    /\ calls = [w \in Workers |-> <<>>]
    /\ resp = [w \in Workers |-> NoResp]
    /\ served = 0

NextSupplier ==
    \/ SupGetSupplier("w1")
    \/ SupFindFrameworks("w1")
    \/ SupGetSupplierFrameworks("w1")
    \/ SupUpdateSupplier("w1")
    \/ SupUpdateDeclaration("w1")
    \/ SupUpdateContact("w1")
    \/ SupRenderUsers("w1")
    \/ MoveGetUser("w1")
    \/ MoveUpdateUser("w1")
    \/ InviteSendEmail("w1")
    \/ InviteAudit("w1")

SpecSupplier == InitSupplier /\ [][NextSupplier]_vars

----------------------------------------------------------------------------
\* Properties of the agreement workflow

UploadHandler(w) == req[w].handler = "upload_countersigned_agreement_file"

RemoveHandler(w) == req[w].handler = "remove_countersigned_agreement_file"

\* the request of w has cleared the path reference: its update call returned
ClearedPath(w) ==
    \E i \in DOMAIN calls[w] : calls[w][i] = Call("update_framework_agreement", None, TRUE)

\* C1: the remove request calls delete_key only after its update of
\* countersignedAgreementPath to None has returned, and the delete_key step,
\* failing or not, leaves the agreement record (the cleared path) as it is.
C1_ClearBeforeDelete ==
    [][\A w \in Workers :
          (pc[w] = "r_delete" /\ pc'[w] # "r_delete")
              => /\ ClearedPath(w)
                 /\ \A i \in DOMAIN calls[w] : calls[w][i].op # "delete_key"
                 /\ calls'[w][Len(calls'[w])].op = "delete_key"
                 /\ agreement' = agreement]_vars

\* C1 witness: a remove request whose delete_key failed: the path is cleared
\* and the object is still stored.
C1_Witness ==
    \E w \in Workers :
        /\ Done(w) /\ RemoveHandler(w)
        /\ calls[w][Len(calls[w])] = Call("delete_key", <<0>>, FALSE)
        /\ agreement.countersignedPath = None
        /\ <<0>> \in bucket

C3_AuditRegardless ==
    \A w \in Workers :
        (Done(w) /\ RemoveHandler(w) /\ ClearedPath(w))
            => Issued(w, "delete_countersigned_agreement")

\* the record the upload request read passes the handler's 404 guard
PassedGuard(w) ==
    /\ calls[w][1].ok
    /\ loc[w].supplier_framework.onFramework
    /\ loc[w].supplier_framework.status \notin {"none", "draft"}

\* C4: an upload request with a file that is not a PDF issues no remote call
\* but the lookup (no approve, no save, no agreement update, no audit event),
\* and once past the 404 guard it answers with the 'not a PDF' message.
C4_NonPdfNoSideEffects ==
    \A w \in Workers :
        (UploadHandler(w) /\ req[w].arg = "notpdf")
            => /\ Ops(w) \subseteq {"get_supplier_framework_info"}
               /\ (Done(w) /\ PassedGuard(w))
                      => resp[w] = Redirect("list_countersigned_agreement_file",
                                            <<COUNTERSIGNED_AGREEMENT_NOT_PDF_MESSAGE>>)

\* C4 witness: a non-PDF upload answered for an agreement that has a
\* countersigned path, which is still the one recorded.
C4_Witness ==
    \E w \in Workers :
        /\ Done(w) /\ UploadHandler(w) /\ req[w].arg = "notpdf"
        /\ resp[w].flash = <<COUNTERSIGNED_AGREEMENT_NOT_PDF_MESSAGE>>
        /\ loc[w].supplier_framework.countersignedPath = <<0>>
        /\ agreement.countersignedPath = <<0>>

\* a call that approves, or that records a countersigned path
ApprovesOrCountersigns(c) ==
    \/ c.op = "approve_agreement_for_countersignature"
    \/ c.op = "update_framework_agreement" /\ c.arg # None

\* C5 as stated: no handler issues an approve call, or records a countersigned
\* path, for an agreement that has not been returned.
C5_NeverUnlessReturned ==
    \A w \in Workers : \A i \in DOMAIN calls[w] :
        /\ calls[w][i].op = "approve_agreement_for_countersignature"
               => calls[w][i].arg \notin {"none", "draft"}
        /\ (calls[w][i].op = "update_framework_agreement" /\ calls[w][i].arg # None)
               => AgreementReturned(agreement)

\* C5 amended: the upload handler issues an approve call or records a
\* countersigned path only after it has read a record that is onFramework
\* with an agreement status other than None and draft (a returned agreement).
C5_UploadOnlyWhenReturned ==
    \A w \in Workers :
        (UploadHandler(w) /\ \E i \in DOMAIN calls[w] : ApprovesOrCountersigns(calls[w][i]))
            => /\ PassedGuard(w)
               /\ AgreementReturned(loc[w].supplier_framework)
               /\ AgreementReturned(agreement)

\* C5 witness: an upload that approved the agreement and recorded the path.
C5_Witness ==
    \E w \in Workers :
        /\ Done(w) /\ UploadHandler(w)
        /\ \E i \in DOMAIN calls[w] :
               calls[w][i] = Call("approve_agreement_for_countersignature", "signed", TRUE)
        /\ \E i \in DOMAIN calls[w] :
               /\ calls[w][i].op = "update_framework_agreement"
               /\ calls[w][i].ok
               /\ calls[w][i].arg = agreement.countersignedPath

----------------------------------------------------------------------------
\* Properties of the declaration section editor

\* the request of w has read a framework with this status
ReadFramework(w, status) ==
    \E i \in DOMAIN calls[w] : calls[w][i] = Call("get_framework", status, TRUE)

\* C6: reading (GET) or writing (POST) a declaration section of a framework
\* whose status is not pending, standstill or live is answered 403, with no
\* declaration lookup and no set_supplier_declaration call.
C6_ForbiddenOutsideWindow ==
    \A w \in Workers : \A status \in FrameworkStatuses \ {"pending", "standstill", "live"} :
        ((EditHandler(w) \/ UpdateHandler(w)) /\ ReadFramework(w, status))
            => /\ resp[w] = Abort(403)
               /\ Done(w)
               /\ Ops(w) = {"get_supplier", "get_framework"}

\* C6 witness: a read and a write of a section of an expired framework, both
\* answered 403.
C6_Witness ==
    /\ framework.status = "expired"
    /\ \E w, v \in Workers :
        /\ EditHandler(w) /\ UpdateHandler(v)
        /\ Done(w) /\ Done(v)
        /\ resp[w].code = 403 /\ resp[v].code = 403
        /\ ReadFramework(w, "expired") /\ ReadFramework(v, "expired")

\* the update request of w has the stored declaration and the posted answers
ReadDeclaration(w) ==
    \E i \in DOMAIN calls[w] :
        /\ calls[w][i].op = "get_supplier_declaration"
        /\ calls[w][i].arg \in {"ok", "404"}

\* C7: when the section has no changes to save (the posted answers equal the
\* stored answers of the section), the update request issues no
\* set_supplier_declaration call and redirects to the declaration view.
C7_NoWriteWhenUnchanged ==
    \A w \in Workers :
        (/\ UpdateHandler(w)
         /\ req[w].arg \in SectionIds
         /\ ReadDeclaration(w)
         /\ ~has_changes_to_save(req[w].arg, loc[w].declaration, loc[w].posted_data))
            => /\ ~Issued(w, "set_supplier_declaration")
               /\ resp[w] = Redirect("view_supplier_declaration", <<>>)

\* C7 witness: the answers posted for section s1 are the stored ones; the
\* request is over and the stored declaration is the one it read.
C7_Witness ==
    \E w \in Workers :
        /\ Done(w) /\ UpdateHandler(w) /\ req[w].arg = "s1"
        /\ ReadDeclaration(w)
        /\ DOMAIN loc[w].declaration = Questions
        /\ loc[w].posted_data = [q \in Sections["s1"] |-> loc[w].declaration[q]]
        /\ ~Issued(w, "set_supplier_declaration")
        /\ declaration.answers = loc[w].declaration

----------------------------------------------------------------------------
\* Properties of the service toggle

\* every remote call of the request returned
NoUpstreamFailure(w) == \A i \in DOMAIN calls[w] : calls[w][i].ok

FoundServices(w) ==
    \E i \in DOMAIN calls[w] : calls[w][i].op = "find_services_iter" /\ calls[w][i].ok

\* C8: with no service in the old status (published for suspend, disabled for
\* unsuspend) the toggle is answered 400 and no update_service_status call is
\* issued: the services are as they were.
C8_NoServicesIs400 ==
    \A w \in Workers :
        (/\ ToggleHandler(w)
         /\ FoundServices(w)
         /\ Matching(loc[w].before, loc[w].toggle_action.old_status) = {})
            => /\ resp[w] = Abort(400)
               /\ ~Issued(w, "update_service_status")
               /\ services = loc[w].before

\* C8 witness: a suspend on a live framework whose services are all
\* disabled already.
C8_Witness ==
    \E w \in Workers :
        /\ Done(w) /\ ToggleHandler(w) /\ req[w].arg.remove = "fw"
        /\ FoundServices(w)
        /\ \A id \in ServiceIds : loc[w].before[id] = "disabled"
        /\ resp[w].code = 400

\* C9: for a framework whose status is not live the toggle is answered 400
\* after the framework lookup: no service lookup, no update_service_status.
C9_NotLiveIs400 ==
    \A w \in Workers : \A status \in FrameworkStatuses \ {"live"} :
        (ToggleHandler(w) /\ ReadFramework(w, status))
            => /\ resp[w] = Abort(400)
               /\ Ops(w) = {"get_framework"}
               /\ services = loc[w].before

\* C9 witness: a suspend on an expired framework with published services.
C9_Witness ==
    \E w \in Workers :
        /\ Done(w) /\ ToggleHandler(w) /\ req[w].arg.remove = "fw"
        /\ ReadFramework(w, "expired")
        /\ \A id \in ServiceIds : services[id] = "published"
        /\ resp[w].code = 400

\* the update_service_status calls of the request, in order
UpdateCalls(w) == SelectSeq(calls[w], LAMBDA c : c.op = "update_service_status")

\* C10: a finished suspend on a live framework with n >= 1 published services
\* and no upstream failure has issued exactly one update_service_status call
\* per published service, each with status disabled; every one of those
\* services is disabled and the others are as they were; the response
\* flashes the suspended message with the framework name and the
\* reindex-delay notice and redirects to the services listing.
C10_SuspendAll ==
    \A w \in Workers :
        (/\ ToggleHandler(w) /\ Done(w)
         /\ req[w].arg.remove # ""
         /\ ReadFramework(w, "live")
         /\ NoUpstreamFailure(w)
         /\ Matching(loc[w].before, "published") # {})
            => LET published == Listed(Matching(loc[w].before, "published"))
               IN  /\ UpdateCalls(w) =
                          [i \in 1..Len(published) |->
                              Call("update_service_status", <<published[i], "disabled">>, TRUE)]
                   /\ services = [id \in ServiceIds |->
                                     IF loc[w].before[id] = "published"
                                     THEN "disabled" ELSE loc[w].before[id]]
                   /\ resp[w] = Redirect("find_supplier_services",
                                         <<SUPPLIER_SERVICES_REMOVED_MESSAGE, "frameworkName",
                                           "supplierName",
                                           SUPPLIER_SERVICES_DELAYED_INDEX_MESSAGE>>)

\* C10 witness: all the services were published and the suspend disabled
\* them all.
C10_Witness ==
    \E w \in Workers :
        /\ Done(w) /\ ToggleHandler(w) /\ req[w].arg.remove = "fw"
        /\ resp[w].code = 302
        /\ \A id \in ServiceIds : loc[w].before[id] = "published" /\ services[id] = "disabled"
        /\ Len(UpdateCalls(w)) = NumServices

----------------------------------------------------------------------------
\* Properties of the draft services page

\* the positions of the supplier's drafts under the framework slug
DraftsOf(slug) == {i \in DOMAIN drafts : drafts[i].frameworkSlug = slug}

\* C11: a draft services request whose remote calls all return is answered
\* with the page (no error), and its result mapping has exactly the frameworks
\* of the supplier's drafts that have an 'edit_service_as_admin' manifest: a
\* framework without the manifest is absent, a framework with it keeps every
\* one of its drafts once, each with its own fields and the count of its
\* unanswered required questions as unansweredRequiredCount.
C11_NoManifestOmitted ==
    \A w \in Workers :
        (Done(w) /\ DraftsHandler(w)) =>
            /\ NoUpstreamFailure(w) <=> resp[w].code = 200
            /\ resp[w].code = 200 =>
                LET result == loc[w].frameworks_draft_services
                IN  /\ DOMAIN result =
                           {drafts[i].frameworkSlug : i \in DOMAIN drafts} \cap content
                    /\ \A slug \in DOMAIN result :
                        /\ Len(result[slug]) = Cardinality(DraftsOf(slug))
                        /\ \A i \in DraftsOf(slug) :
                            \E j \in DOMAIN result[slug] :
                                /\ result[slug][j].id = i
                                /\ result[slug][j].createdAt = drafts[i].createdAt
                                /\ result[slug][j].answered = drafts[i].answered
                                /\ result[slug][j].unansweredRequiredCount =
                                       Cardinality(RequiredQuestions \ drafts[i].answered)

\* a page for a supplier with drafts under a framework without the manifest
\* and drafts under a framework with it, one of them with an unanswered
\* required question
C11_Witness ==
    /\ Done("w1") /\ DraftsHandler("w1")
    /\ resp["w1"].code = 200
    /\ \E i, j \in DOMAIN drafts :
        /\ drafts[i].frameworkSlug \notin content
        /\ drafts[j].frameworkSlug \in content
        /\ drafts[j].answered = {}
        /\ DOMAIN loc["w1"].frameworks_draft_services = {drafts[j].frameworkSlug}

----------------------------------------------------------------------------
\* Properties of the agreement pages

\* the supplier-framework lookup of the request of w returned
LookupReturned(w) ==
    \E i \in DOMAIN calls[w] :
        calls[w][i].op = "get_supplier_framework_info" /\ calls[w][i].ok

\* C12: a view_signed_agreement request that read a supplier-framework record
\* whose agreement was not returned is answered 404: it issues no call after
\* the lookup (no service listing, no signed URL) and renders no template.
C12_NotReturnedIs404 ==
    \A w \in Workers :
        (/\ ViewHandler(w)
         /\ LookupReturned(w)
         /\ ~AgreementReturned(loc[w].supplier_framework))
            => /\ Done(w)
               /\ resp[w] = Abort(404)
               /\ Ops(w) = {"get_supplier", "get_framework", "get_supplier_framework_info"}
               /\ Len(calls[w]) = 3
               /\ loc[w].agreement_url = None

\* a view of an agreement that was not returned, on a framework with an
\* agreement version, answered 404
C12_Witness ==
    /\ ViewHandler("w1") /\ Done("w1")
    /\ LookupReturned("w1")
    /\ loc["w1"].framework.frameworkAgreementVersion # Null
    /\ agreement.status = "draft"
    /\ resp["w1"].code = 404

----------------------------------------------------------------------------
\* Properties of the role guard

\* C13: a request for the services toggle by a user whose role is not
\* admin-ccs-category, or for the countersigned agreement upload by a user
\* whose role is not admin-ccs-sourcing, is rejected before any data access:
\* the request is over with 403 and it issued no remote call (data API or
\* object storage), whatever the agreement, the framework and the services
\* are.
C13_RejectedBeforeDataAccess ==
    \A w \in Workers :
        (\/ /\ req[w].handler = "toggle_supplier_services"
            /\ session[w] # "admin-ccs-category"
         \/ /\ req[w].handler = "upload_countersigned_agreement_file"
            /\ session[w] # "admin-ccs-sourcing")
            => /\ Done(w)
               /\ resp[w] = Abort(403)
               /\ calls[w] = <<>>

\* an upload request of a category user for a signed agreement on the
\* framework (which a sourcing user could countersign), rejected
C13_Witness ==
    /\ req["w1"].handler = "upload_countersigned_agreement_file"
    /\ session["w1"] = "admin-ccs-category"
    /\ agreement.status = "signed" /\ agreement.onFramework
    /\ resp["w1"].code = 403
    /\ calls["w1"] = <<>>

----------------------------------------------------------------------------
\* Properties of the supplier's details

CompanyNumberHandler(w) == req[w].handler = "edit_supplier_registered_company_number"

\* both company numbers of record s are set
BothNumbers(s) ==
    s.companiesHouseNumber # Null /\ s.otherCompanyRegistrationNumber # Null

\* C14: every update_supplier call of edit_supplier_registered_company_number
\* carries a payload with the Companies House number (upper case) and None
\* for the other number when the form has a Companies House number, and None
\* for the Companies House number and the form's other number when it has
\* not; once that call has returned the supplier does not have both numbers,
\* whatever it had before, and a call that failed leaves the supplier as it
\* was.
C14_MutuallyExclusive ==
    [][\A w \in Workers :
          (pc[w] = "s_update_supplier" /\ CompanyNumberHandler(w)
               /\ Len(calls'[w]) = Len(calls[w]) + 1)
              => LET call == calls'[w][Len(calls'[w])]
                     form == req[w].arg
                 IN  /\ call.op = "update_supplier"
                     /\ IF form.companies_house_number # ""
                        THEN /\ call.arg.companiesHouseNumber
                                    = Upper[form.companies_house_number]
                             /\ call.arg.otherCompanyRegistrationNumber = Null
                        ELSE /\ call.arg.companiesHouseNumber = Null
                             /\ call.arg.otherCompanyRegistrationNumber
                                    = form.other_company_registration_number
                     /\ call.ok => ~BothNumbers(supplier')
                     /\ ~call.ok => supplier' = supplier]_vars

\* a supplier read with another registration number, given a Companies
\* House number by a form that carried both
C14_Witness ==
    /\ CompanyNumberHandler("w1") /\ Done("w1")
    /\ resp["w1"].code = 302
    /\ req["w1"].arg.companies_house_number = "ab12"
    /\ req["w1"].arg.other_company_registration_number = "x9"
    /\ loc["w1"].supplier.otherCompanyRegistrationNumber = "x9"
    /\ supplier.companiesHouseNumber = "AB12"
    /\ supplier.otherCompanyRegistrationNumber = Null

----------------------------------------------------------------------------
\* Properties of the declaration lookup

DeclarationHandler(w) == EditHandler(w) \/ UpdateHandler(w) \/ ViewDeclarationHandler(w)

\* the declaration lookup of the handler of w
DeclarationLookup(w) ==
    IF ViewDeclarationHandler(w)
    THEN "get_supplier_framework_info"
    ELSE "get_supplier_declaration"

\* C15: in the three declaration handlers a 404 from the declaration lookup
\* is an empty declaration and the request goes on (it is answered with the
\* page, the 404 of an unknown section or the redirect, or saves the posted
\* section; it ends with an exception only if that save fails), while any
\* other failure of the lookup or of an earlier read ends the request with
\* that exception as its last call, with no set_supplier_declaration issued.
C15_NotFoundIsEmpty ==
    \A w \in Workers :
        DeclarationHandler(w) =>
            \A i \in DOMAIN calls[w] :
                /\ (calls[w][i].op = DeclarationLookup(w) /\ calls[w][i].arg = "404")
                       => /\ loc[w].declaration = <<>>
                          /\ resp[w] = Raised =>
                                 /\ i < Len(calls[w])
                                 /\ calls[w][Len(calls[w])].op = "set_supplier_declaration"
                /\ (/\ calls[w][i].op \in {"get_supplier", "get_framework",
                                            DeclarationLookup(w)}
                    /\ ~calls[w][i].ok
                    /\ ~(calls[w][i].op = DeclarationLookup(w) /\ calls[w][i].arg = "404"))
                       => /\ Done(w)
                          /\ resp[w] = Raised
                          /\ i = Len(calls[w])
                          /\ ~Issued(w, "set_supplier_declaration")

\* an update whose lookup found no declaration and which saved the posted
\* section, and a view whose lookup found no record and which rendered the
\* page with an empty declaration
C15_Witness ==
    \E w, v \in Workers :
        /\ UpdateHandler(w) /\ Done(w)
        /\ Len(calls[w]) = 4
        /\ calls[w][3].op = "get_supplier_declaration" /\ calls[w][3].arg = "404"
        /\ calls[w][4].op = "set_supplier_declaration"
        /\ resp[w].code = 302
        /\ ViewDeclarationHandler(v) /\ Done(v)
        /\ Len(calls[v]) = 3
        /\ calls[v][3].arg = "404"
        /\ resp[v].code = 200
        /\ loc[v].declaration = <<>>

----------------------------------------------------------------------------
\* Properties of the agreement lookup

AgreementLookupHandlers ==
    {"view_signed_agreement", "download_signed_agreement_file",
     "download_agreement_file", "list_countersigned_agreement_file",
     "upload_countersigned_agreement_file", "remove_countersigned_agreement_file"}

----------------------------------------------------------------------------
\* Properties of form validation

\* the remote calls that write: supplier, contact, declaration, user, email
\* and audit event
WriteOps == {"update_supplier", "update_contact_information",
             "update_supplier_declaration", "update_user",
             "send_user_account_email", "create_audit_event"}

\* the request of w posted a form that fails validation
InvalidForm(w) ==
    /\ req[w].handler \in EditHandlers \cup UserHandlers
    /\ req[w].method = "POST"
    /\ ~req[w].arg.valid

\* C17: a request of one of the five form handlers whose posted form fails
\* validation issues no write call (no update_supplier,
\* update_contact_information, update_supplier_declaration, update_user,
\* email or audit event), leaves the supplier and the declaration as they
\* were, and, when its reads return, is answered 400 with the template of
\* the handler's form.
C17_InvalidFormNoWrite ==
    [][\A w \in Workers :
          InvalidForm(w)' =>
              /\ Ops(w)' \cap WriteOps = {}
              /\ pc[w] # "idle" => (supplier' = supplier /\ declaration' = declaration)
              /\ (Done(w)' /\ NoUpstreamFailure(w)') =>
                     resp'[w] = [code |-> 400, flash |-> <<>>,
                                 location |-> FormTemplate[req'[w].handler]]]_vars

\* a move-user form naming a known user that failed validation, answered
\* 400 with the users page after the supplier and its users were read
C17_Witness ==
    /\ InvalidForm("w1") /\ Done("w1")
    /\ req["w1"].handler = "move_user_to_new_supplier"
    /\ req["w1"].arg.email_address \in KnownUsers
    /\ Ops("w1") = {"get_supplier", "find_users_iter"}
    /\ resp["w1"].code = 400
    /\ supplier.users = {}

----------------------------------------------------------------------------
\* Properties of the approval handlers

ApproveHandler(w) == req[w].handler = "approve_agreement_for_countersignature"

UnapproveHandler(w) == req[w].handler = "unapprove_agreement_for_countersignature"

CallsOf(w, op) == SelectSeq(calls[w], LAMBDA c : c.op = op)

\* C20: an upload request that has come to save its file (a PDF, for an
\* agreement that passed the guard) has issued the approve call exactly when
\* the agreement status it read is neither approved nor countersigned; it
\* then issued it once, before the save, and the call had returned.  An
\* upload request that read the status approved or countersigned never
\* issues an approve call.
C20_ApproveBeforeSave ==
    \A w \in Workers :
        UploadHandler(w) =>
            LET status == loc[w].supplier_framework.status
                approve == "approve_agreement_for_countersignature"
            IN  /\ (calls[w][1].ok /\ status \in {"approved", "countersigned"})
                       => ~Issued(w, approve)
                /\ Issued(w, "save") =>
                       /\ req[w].arg = "pdf"
                       /\ Issued(w, approve) <=> status \notin {"approved", "countersigned"}
                       /\ Issued(w, approve) =>
                              /\ Len(CallsOf(w, approve)) = 1
                              /\ CallsOf(w, approve)[1].ok
                              /\ FirstCall(w, approve) < FirstCall(w, "save")

\* two uploads that saved their files: one read a signed agreement and
\* approved it first, the other read it approved and did not
C20_Witness ==
    \E w, v \in Workers :
        /\ UploadHandler(w) /\ UploadHandler(v)
        /\ Issued(w, "save") /\ Issued(v, "save")
        /\ loc[w].supplier_framework.status = "signed"
        /\ Issued(w, "approve_agreement_for_countersignature")
        /\ loc[v].supplier_framework.status = "approved"
        /\ ~Issued(v, "approve_agreement_for_countersignature")

\* C21: in an upload request the agreement update follows directly a save
\* that returned, and the audit event follows directly an agreement update
\* that returned; the path sent with the update and with the audit event is
\* the path the file was saved at.  A request whose save failed issues
\* neither of them, and a request answered with the uploaded message has
\* made the three calls, in this order, as its last calls.
C21_SaveThenPathThenAudit ==
    \A w \in Workers :
        UploadHandler(w) =>
            LET c == calls[w]
                n == Len(calls[w])
            IN  /\ \A i \in DOMAIN c :
                       c[i].op = "update_framework_agreement"
                           => /\ i > 1
                              /\ c[i - 1] = Call("save", c[i].arg, TRUE)
                /\ \A i \in DOMAIN c :
                       c[i].op = "upload_countersigned_agreement"
                           => /\ i > 1
                              /\ c[i - 1] = Call("update_framework_agreement", c[i].arg, TRUE)
                /\ (\E i \in DOMAIN c : c[i].op = "save" /\ ~c[i].ok)
                       => ~Issued(w, "update_framework_agreement")
                          /\ ~Issued(w, "upload_countersigned_agreement")
                /\ (Done(w) /\ resp[w].flash = <<UPLOAD_COUNTERSIGNED_AGREEMENT_MESSAGE>>)
                       => /\ n >= 4
                          /\ c[n - 2].op = "save"
                          /\ c[n - 1].op = "update_framework_agreement"
                          /\ c[n] = Call("upload_countersigned_agreement", c[n - 2].arg, TRUE)

\* a finished upload at clock 1 whose three calls carry the path <<1>>, which
\* is stored and recorded, beside an upload whose save failed after its
\* approve call
C21_Witness ==
    \E w, v \in Workers :
        /\ Done(w) /\ UploadHandler(w)
        /\ resp[w].flash = <<UPLOAD_COUNTERSIGNED_AGREEMENT_MESSAGE>>
        /\ calls[w][Len(calls[w])] = Call("upload_countersigned_agreement", <<1>>, TRUE)
        /\ agreement.countersignedPath = <<1>>
        /\ <<1>> \in bucket
        /\ Done(v) /\ UploadHandler(v)
        /\ calls[v][Len(calls[v])].op = "save"
        /\ ~calls[v][Len(calls[v])].ok
        /\ resp[v] = Raised

----------------------------------------------------------------------------
\* Properties of the declaration save

\* a posted answer differs from the stored one (or none is stored for it)
Differ(stored, posted_data) ==
    \E q \in DOMAIN posted_data : q \notin DOMAIN stored \/ stored[q] # posted_data[q]

\* the set_supplier_declaration call of the request of w, which returned
Saved(w) ==
    /\ Done(w) /\ UpdateHandler(w)
    /\ Len(calls[w]) = 4
    /\ calls[w][4].op = "set_supplier_declaration"
    /\ calls[w][4].ok

\* C22: an update request whose lookup returned (or found nothing) and whose
\* posted answers differ from the answers it read goes on to the save, and
\* the save sends the complete mapping: its question ids are those read and
\* those posted, every posted id has the posted answer, every other id the
\* answer read.  If the call returns this mapping is the stored declaration,
\* if it raises the stored declaration is as it was.
C22_WholeMappingPersisted ==
    [][\A w \in Workers :
          /\ (/\ pc[w] = "d_get_declaration" /\ pc'[w] # "d_get_declaration"
              /\ UpdateHandler(w)
              /\ req[w].arg \in SectionIds
              /\ calls'[w][Len(calls'[w])].arg \in {"ok", "404"}
              /\ Differ(loc'[w].declaration, loc'[w].posted_data))
                 => pc'[w] = "d_set"
          /\ (pc[w] = "d_set" /\ pc'[w] # "d_set")
                 => LET c == calls'[w][Len(calls'[w])]
                        read == loc[w].declaration
                        posted == loc[w].posted_data
                    IN  /\ c.op = "set_supplier_declaration"
                        /\ DOMAIN c.arg = DOMAIN read \cup DOMAIN posted
                        /\ \A q \in DOMAIN posted : c.arg[q] = posted[q]
                        /\ \A q \in DOMAIN read \ DOMAIN posted : c.arg[q] = read[q]
                        /\ declaration' = IF c.ok
                                          THEN [found |-> TRUE, answers |-> c.arg]
                                          ELSE declaration]_vars

\* an update of section s1 that read a for both questions and posted b for
\* q1: the stored declaration has b for q1 and still a for q2
C22_Witness ==
    \E w \in Workers :
        /\ Saved(w) /\ req[w].arg = "s1"
        /\ loc[w].declaration = [q \in Questions |-> "a"]
        /\ loc[w].posted_data = [q \in {"q1"} |-> "b"]
        /\ declaration = [found |-> TRUE,
                          answers |-> [q \in Questions |-> IF q = "q1" THEN "b" ELSE "a"]]

\* m is the mapping read overridden by the posted answers
IsOverride(m, read, posted_data) ==
    /\ DOMAIN m = DOMAIN read \cup DOMAIN posted_data
    /\ \A q \in DOMAIN posted_data : m[q] = posted_data[q]
    /\ \A q \in DOMAIN read \ DOMAIN posted_data : m[q] = read[q]

\* C25: two update requests that both saved after reading the same stored
\* declaration leave stored the mapping of one of them alone, the one whose
\* save came later: what both of them read, overridden by the answers that
\* one request posted.  The answers the other request posted are in it only
\* where they are the answers read: they are overwritten, never merged.
C25_LaterSaveOverwrites ==
    \A w, v \in Workers :
        (/\ w # v
         /\ Saved(w) /\ Saved(v)
         /\ loc[w].declaration = loc[v].declaration)
            => \E x \in {w, v} :
                   IsOverride(declaration.answers, loc[x].declaration, loc[x].posted_data)

\* a lost update: both requests read a for both questions, one posted b for
\* q1 in section s1, the other b for q2 in section s2, both saves returned,
\* and the stored declaration has a for q1 again
C25_Witness ==
    \E w, v \in Workers :
        /\ Saved(w) /\ req[w].arg = "s1"
        /\ Saved(v) /\ req[v].arg = "s2"
        /\ loc[w].declaration = [q \in Questions |-> "a"]
        /\ loc[v].declaration = [q \in Questions |-> "a"]
        /\ loc[w].posted_data = [q \in {"q1"} |-> "b"]
        /\ loc[v].posted_data = [q \in {"q2"} |-> "b"]
        /\ declaration.answers = [q \in Questions |-> IF q = "q2" THEN "b" ELSE "a"]

----------------------------------------------------------------------------
\* Properties of a toggle that fails part way

\* C23: a failed update_service_status call is the last call of its request,
\* which is over with the exception and no flash.  It is the call for the
\* k-th service found: the services found before it are in the new status,
\* the k-th and those after it in the old status, and every service that was
\* not found is as it was when the request came in.
C23_PartialToggleNoRollback ==
    \A w \in Workers :
        ToggleHandler(w) =>
            \A i \in DOMAIN calls[w] :
                (calls[w][i].op = "update_service_status" /\ ~calls[w][i].ok)
                    => LET found == loc[w].services
                           k == loc[w].k
                           action == loc[w].toggle_action
                       IN  /\ i = Len(calls[w])
                           /\ Done(w) /\ resp[w] = Raised /\ resp[w].flash = <<>>
                           /\ k = i - 2
                           /\ calls[w][i].arg = <<found[k], action.new_status>>
                           /\ \A j \in 1..(k - 1) : services[found[j]] = action.new_status
                           /\ \A j \in k..Len(found) : services[found[j]] = action.old_status
                           /\ \A id \in ServiceIds :
                                  (\A j \in DOMAIN found : found[j] # id)
                                      => services[id] = loc[w].before[id]

\* a suspend of two published services whose second update failed: the
\* first service is disabled, the second still published
C23_Witness ==
    /\ Done("w1") /\ ToggleHandler("w1")
    /\ resp["w1"] = Raised
    /\ loc["w1"].before = [id \in ServiceIds |-> "published"]
    /\ loc["w1"].toggle_action.new_status = "disabled"
    /\ Len(calls["w1"]) = 4
    /\ calls["w1"][3] = Call("update_service_status", <<1, "disabled">>, TRUE)
    /\ calls["w1"][4] = Call("update_service_status", <<2, "disabled">>, FALSE)
    /\ services[1] = "disabled"
    /\ services[2] = "published"

----------------------------------------------------------------------------
\* Properties of the upload guard

\* C24: an upload request whose lookup returned a record that is not
\* onFramework, or whose agreement status is None or draft, is over with 404
\* and the lookup is its only remote call, whatever file was posted: no
\* approve call, no save, no agreement update, no audit event.  An upload
\* request that issued the approve call read a record that is onFramework
\* with a status other than None, draft, approved and countersigned.
C24_GuardBeforeSideEffects ==
    \A w \in Workers :
        (UploadHandler(w) /\ calls[w][1].ok) =>
            LET supplier_framework == loc[w].supplier_framework
            IN  /\ (\/ ~supplier_framework.onFramework
                    \/ supplier_framework.status \in {"none", "draft"})
                       => /\ Done(w)
                          /\ resp[w] = Abort(404)
                          /\ Len(calls[w]) = 1
                /\ Issued(w, "approve_agreement_for_countersignature")
                       => /\ supplier_framework.onFramework
                          /\ supplier_framework.status
                                 \notin {"none", "draft", "approved", "countersigned"}

\* a PDF posted for a supplier that is on the framework with a draft
\* agreement: 404, nothing stored, the agreement still a draft
C24_Witness ==
    \E w \in Workers :
        /\ Done(w) /\ UploadHandler(w) /\ req[w].arg = "pdf"
        /\ calls[w] = <<Call("get_supplier_framework_info", "200", TRUE)>>
        /\ loc[w].supplier_framework.onFramework
        /\ loc[w].supplier_framework.status = "draft"
        /\ resp[w] = Abort(404)
        /\ bucket = {}
        /\ agreement.status = "draft"

----------------------------------------------------------------------------
\* Properties of a suspend followed by another toggle

\* the worker of the last request accepted, and of the one before it
LastWorker == IF served % 2 = 1 THEN "w1" ELSE "w2"

PrevWorker == IF served % 2 = 1 THEN "w2" ELSE "w1"

IsSuspend(w) == ToggleHandler(w) /\ req[w].arg.remove # ""

IsUnsuspend(w) == ToggleHandler(w) /\ req[w].arg.remove = "" /\ req[w].arg.publish # ""

\* the toggle of w went through: every update returned, the message is flashed
ToggleSucceeded(w) == Done(w) /\ resp[w].code = 302

\* C26: after a suspend that went through, with original the statuses before
\* it: (1) an unsuspend that goes through next leaves published every service
\* that was published or disabled in original, so the statuses are original
\* again exactly when no service was disabled in original; (2) a suspend that
\* comes next issues no update_service_status call, leaves the statuses as
\* they are, and is answered 400 once the framework and the (empty) list of
\* published services have been read.
C26_SuspendUnsuspend ==
    (served >= 2 /\ IsSuspend(PrevWorker) /\ ToggleSucceeded(PrevWorker)) =>
        LET original == loc[PrevWorker].before
            w == LastWorker
        IN  /\ (IsUnsuspend(w) /\ ToggleSucceeded(w))
                   => /\ services = [id \in ServiceIds |->
                                        IF original[id] \in {"published", "disabled"}
                                        THEN "published" ELSE original[id]]
                      /\ (services = original)
                             <=> (\A id \in ServiceIds : original[id] # "disabled")
            /\ IsSuspend(w)
                   => /\ ~Issued(w, "update_service_status")
                      /\ services = loc[w].before
                      /\ (Done(w) /\ NoUpstreamFailure(w))
                             => /\ resp[w] = Abort(400)
                                /\ Ops(w) = {"get_framework", "find_services_iter"}

\* service 1 was published and service 2 disabled; the suspend disabled
\* service 1, the unsuspend published both: service 2 is not as it was
C26_Witness ==
    /\ served = 2
    /\ IsSuspend("w1") /\ ToggleSucceeded("w1")
    /\ IsUnsuspend("w2") /\ ToggleSucceeded("w2")
    /\ loc["w1"].before = [id \in ServiceIds |-> IF id = 1 THEN "published" ELSE "disabled"]
    /\ loc["w2"].before = [id \in ServiceIds |-> "disabled"]
    /\ services = [id \in ServiceIds |-> "published"]

====
